---- MODULE Spec2Model ----
(***************************************************************************)
(* A model of the presence / unzoom Holochain DNAs:                        *)
(*   - the integrity zomes' validate callback (dnas/*/zomes/integrity),    *)
(*   - the room coordinator zome's revision resolver and mutation calls    *)
(*     (dnas/presence/zomes/coordinator/room).                             *)
(* The replicated store (the DHT, each cell's view of it) is the           *)
(* collaborator the zomes reach through the HDK/HDI host functions.        *)
(***************************************************************************)
EXTENDS Integers, Sequences, FiniteSets, Bags, TLC

\* ------------------------------------------------------------------ bounds
NAgents == 2
MaxTime == 3
MaxCalls == 3
MaxLinks == 3

Agents == 1..NAgents
Times == 1..MaxTime

\* ------------------------------------------------------------------ hashes
\* A HoloHash is its hash type and its 32 core bytes (here: a number).
ActionHash(i) == [kind |-> "Action", id |-> i]
EntryHash(i) == [kind |-> "Entry", id |-> i]
ExternalHash(i) == [kind |-> "External", id |-> i]
NoHash == [kind |-> "None", id |-> 0]

\* An agent key used as a link target is an AnyLinkableHash of the Entry
\* type carrying the key's bytes (From<AgentPubKey> for AnyLinkableHash).
AgentAsLinkable(a) == EntryHash(a)

\* AgentPubKey::try_from(AnyLinkableHash): succeeds on the Entry hash type,
\* retyping the same bytes as an agent key; fails on Action and External.
AgentPubKey_try_from_ok(h) == h.kind = "Entry"
AgentPubKey_try_from(h) == h.id

\* EntryHash::try_from(AnyLinkableHash)
EntryHash_try_from_ok(h) == h.kind = "Entry"

\* AnyLinkableHash::into_action_hash
into_action_hash_ok(h) == h.kind = "Action"
into_action_hash(h) == h.id

\* Path::from(name).path_entry_hash(): the entry hash of the path's
\* components, a function of the name alone.
path_entry_hash(name) ==
    CASE name = "ROOM_INFO" -> EntryHash(11)
      [] name = "ALL_AGENTS" -> EntryHash(12)
      [] name = "all_agents" -> EntryHash(13)
      [] name = "all_attachments" -> EntryHash(14)
      [] name = "ALL_DESCENDENT_ROOMS" -> EntryHash(15)
      [] name = "all_descendent_rooms" -> EntryHash(16)
      [] name = "<root>" -> EntryHash(17)
      [] name = "<root>.ALL_AGENTS" -> EntryHash(18)
      [] name = "<root>.ALL_AGENTS.ALL_AGENTS" -> EntryHash(10)
      [] OTHER -> EntryHash(19)

ROOM_INFO == "ROOM_INFO"
ALL_AGENTS == "ALL_AGENTS"
ALL_DESCENDENT_ROOMS == "ALL_DESCENDENT_ROOMS"

\* hash_entry(entry): the hash of the entry the action i stores, entries of
\* different actions being different (the UI puts a UUID in each).
hash_entry(i) == EntryHash(20 + i)

\* ------------------------------------------------------------------ vocabulary
EntryKinds == {"RoomInfo", "Attachment", "DescendentRoom"}
LinkTypes == {"RoomInfoUpdates", "AllAgents", "AllDescendentRooms",
              "AttachmentUpdates", "AllAttachments"}
UnzoomLinkTypes == {"AnchorToAgent", "AgentAnchor"}

\* An action of a source chain.  Every action has every field; the fields
\* an action type does not carry hold "NA" / 0 / NoHash.
\*   entry_type : "App" | "CapGrant" | "NA"    (EntryType of a Create/Update)
\*   zome       : integrity zome that defines the entry or link type
\*   entry      : the entry stored with the action: one of EntryKinds,
\*                "Foreign" (another zome's entry), "Absent" (not stored)
\*   original   : id of the action an Update supersedes / a Delete or
\*                DeleteLink deletes / prev_action of a CreateAgent
Act(type, author, ts, entry_type, zome, entry, original, link_type, base, target, tag) ==
    [type |-> type, author |-> author, timestamp |-> ts,
     entry_type |-> entry_type, zome |-> zome, entry |-> entry,
     original |-> original, link_type |-> link_type,
     base |-> base, target |-> target, tag |-> tag]

CreateAct(author, ts, kind) ==
    Act("Create", author, ts, "App", "room", kind, 0, "NA", NoHash, NoHash, "NA")
UpdateAct(author, ts, kind, previous) ==
    Act("Update", author, ts, "App", "room", kind, previous, "NA", NoHash, NoHash, "NA")
DeleteAct(author, ts, deletes) ==
    Act("Delete", author, ts, "NA", "NA", "NA", deletes, "NA", NoHash, NoHash, "NA")
CreateLinkAct(author, ts, zome, link_type, base, target, tag) ==
    Act("CreateLink", author, ts, "NA", zome, "NA", 0, link_type, base, target, tag)
DeleteLinkAct(author, ts, link_add_address) ==
    Act("DeleteLink", author, ts, "NA", "NA", "NA", link_add_address, "NA", NoHash, NoHash, "NA")
OtherAct(type, author, ts, prev) ==
    Act(type, author, ts, "NA", "NA", "NA", prev, "NA", NoHash, NoHash, "NA")
NoAct == OtherAct("None", 0, 0, 0)

\* ------------------------------------------------------------------ verdicts
\* ExternResult<ValidateCallbackResult>
Valid == [tag |-> "Valid", reason |-> ""]
Invalid(reason) == [tag |-> "Invalid", reason |-> reason]
Err(reason) == [tag |-> "Err", reason |-> reason]
\* must_get_* on a hash the validating cell does not hold short-circuits the
\* callback: the question mark after it returns the host's UnresolvedDependencies.
UnresolvedDependencies == [tag |-> "UnresolvedDependencies", reason |-> ""]
NotRun == [tag |-> "NotRun", reason |-> ""]

\* must_get_action / must_get_valid_record(hash): the action (record) of
\* that hash in the store W, when the validating cell's view holds it.
must_get_ok(h, W, view) == h \in view /\ h \in DOMAIN W
must_get(h, W) == W[h]

\* ------------------------------------------------------------------ room integrity zome
\* Decoding the bytes of an app entry as the struct of an entry type.  The
\* entries are maps of named fields and the decoder ignores fields it does
\* not know and reads a missing Option as None: a DescendentRoom
\* {network_seed_appendix, name, icon_src, meta_data} decodes as a RoomInfo
\* {name, icon_src, meta_data}, a RoomInfo does not decode as a
\* DescendentRoom.  The fields of Attachment are not among the sources; an
\* Attachment is taken to decode as an Attachment only, and nothing else as
\* an Attachment.  Entries of other zomes do not decode.
Decodes(kind, entry) ==
    \/ entry = kind /\ kind \in {"RoomInfo", "Attachment", "DescendentRoom"}
    \/ kind = "RoomInfo" /\ entry = "DescendentRoom"

\* X::try_from(Record): fails on a record without an app entry and on an
\* app entry that does not decode as X.
Entry_try_from_ok(kind, rec) == rec.entry_type = "App" /\ Decodes(kind, rec.entry)

\* record.entry().to_app_option::<X>(): Ok(None) for a record without an app
\* entry, Err for an app entry that does not decode as X.
to_app_option(kind, rec) ==
    IF rec.entry_type # "App" \/ rec.entry \in {"Absent", "AbsentPrivate", "NA"} THEN "None"
    ELSE IF Decodes(kind, rec.entry) THEN "Some"
    ELSE "Err"

\* integrity/room/src/attachment.rs is not part of the sources; its rules are
\* the specification's: "Create/Update/Delete Entry, kind=Attachment: always
\* Valid", "DeleteLink AllAttachments / AttachmentUpdates: Valid", and the
\* permissive default for the CreateLink kinds the table does not list.
validate_create_attachment == Valid
validate_update_attachment == Valid
validate_delete_attachment == Valid
validate_create_link_attachment_updates(action) == Valid
validate_delete_link_attachment_updates == Valid
validate_create_link_all_attachments(action) == Valid
validate_delete_link_all_attachments == Valid

validate_create_room_info == Valid
\* validate_update_room_info of an editable room description.
validate_update_room_info_allowed == Valid

validate_update_room_info == Invalid("Updating a RoomInfo entry is not allowed.")
validate_delete_room_info == Invalid("Room Infos cannot be deleted")

validate_create_descendent_room == Valid
validate_update_descendent_room == Invalid("Updating a DescendentRoom entry is not allowed.")
\* validate_delete_descendent_room as the scaffold's default.
validate_delete_descendent_room_allowed == Valid

validate_delete_descendent_room == Invalid("Room Infos cannot be deleted")

\* validate_create_link_all_agents without the author comparison.
validate_create_link_all_agents_any_author(action) ==
    IF ~AgentPubKey_try_from_ok(action.target)
    THEN Invalid("AllAgents link target is not an agent public key.")
    ELSE Valid

validate_create_link_all_agents(action) ==
    IF ~AgentPubKey_try_from_ok(action.target)
    THEN Invalid("AllAgents link target is not an agent public key.")
    ELSE IF action.author # AgentPubKey_try_from(action.target)
    THEN Invalid("Links from the ALL_AGENTS anchor can only be created for oneself.")
    ELSE Valid

\* validate_delete_link_all_agents of a roster one can leave.
validate_delete_link_all_agents_allowed == Valid

validate_delete_link_all_agents == Invalid("AllAgent links cannot be deleted.")

\* validate_create_link_all_descendent_rooms for links to rooms: the
\* target is the entry hash of a DescendentRoom, whoever the author is.
validate_create_link_all_descendent_rooms_to_room(action) ==
    IF ~EntryHash_try_from_ok(action.target)
    THEN Invalid("AllDescendentRooms link target is not an entry hash.")
    ELSE IF action.tag = "utf8"
    THEN Valid
    ELSE Invalid("LinkTag is of a format that cannot be converted to a String.")

\* validate_create_link_all_descendent_rooms without the tag conversion.
validate_create_link_all_descendent_rooms_any_tag(action) ==
    IF ~AgentPubKey_try_from_ok(action.target)
    THEN Invalid("AllAgents link target is not an agent public key.")
    ELSE IF action.author # AgentPubKey_try_from(action.target)
    THEN Invalid("Links from the ALL_AGENTS anchor can only be created for oneself.")
    ELSE Valid

\* String::from_utf8(tag): the tag is modelled by whether its bytes are UTF-8.
validate_create_link_all_descendent_rooms(action) ==
    IF ~AgentPubKey_try_from_ok(action.target)
    THEN Invalid("AllAgents link target is not an agent public key.")
    ELSE IF action.author # AgentPubKey_try_from(action.target)
    THEN Invalid("Links from the ALL_AGENTS anchor can only be created for oneself.")
    ELSE IF action.tag = "utf8"
    THEN Valid
    ELSE Invalid("LinkTag is of a format that cannot be converted to a String.")

\* validate_delete_link_all_descendent_rooms as an append-only registry.
validate_delete_link_all_descendent_rooms_forbidden ==
    Invalid("AllDescendentRooms links cannot be deleted")

validate_delete_link_all_descendent_rooms == Valid

\* validate_create_link_room_info_updates for links on the original
\* RoomInfo record, as update_room_info writes them.
validate_create_link_room_info_updates_on_original(action, W, view) ==
    IF ~into_action_hash_ok(action.base)
    THEN Invalid("Base address of a RoomInfoUpdates link must be an action hash.")
    ELSE IF ~into_action_hash_ok(action.target)
    THEN Err("Link to RoomInfo entry is not an action hash")
    ELSE IF ~must_get_ok(into_action_hash(action.target), W, view)
    THEN UnresolvedDependencies
    ELSE IF to_app_option("RoomInfo", must_get(into_action_hash(action.target), W)) # "Some"
    THEN Err("Linked action must point to a RoomInfo entry")
    ELSE Valid

validate_create_link_room_info_updates(action, W, view) ==
    IF ~EntryHash_try_from_ok(action.base)
    THEN Invalid("Base address of a RoomInfoUpdates link must be an entry hash.")
    ELSE IF action.base # path_entry_hash(ROOM_INFO)
    THEN Invalid("RoomInfoUpdates links must have the RoomInfo anchor as their base.")
    ELSE IF ~into_action_hash_ok(action.target)
    THEN Err("Link to RoomInfo entry is not an action hash")
    ELSE IF ~must_get_ok(into_action_hash(action.target), W, view)
    THEN UnresolvedDependencies
    ELSE IF to_app_option("RoomInfo", must_get(into_action_hash(action.target), W)) = "Err"
    THEN Err("Deserialize")
    ELSE IF to_app_option("RoomInfo", must_get(into_action_hash(action.target), W)) = "None"
    THEN Err("Linked action must point to a RoomInfo entry")
    ELSE Valid

\* validate_delete_link_room_info_updates as the scaffold's default.
validate_delete_link_room_info_updates_allowed == Valid

validate_delete_link_room_info_updates == Invalid("RoomInfoUpdates links cannot be deleted")

validate_agent_joining == Valid

\* EntryCreationAction::try_from(Action)
EntryCreationAction_try_from_ok(act) == act.type \in {"Create", "Update"}

\* EntryTypes::deserialize_from_type(zome_index, entry_index, entry):
\* None for an entry type this integrity zome does not define.
deserialize_from_type_some(act) == act.zome = "room" /\ act.entry \in EntryKinds

validate_StoreEntry(op) ==
    IF op.sub \in {"CreateEntry", "UpdateEntry"}
    THEN CASE op.app_entry = "RoomInfo" -> validate_create_room_info
           [] op.app_entry = "Attachment" -> validate_create_attachment
           [] op.app_entry = "DescendentRoom" -> validate_create_descendent_room
    ELSE Valid

\* validate_RegisterUpdate that treats every entry type as create-once.
validate_RegisterUpdate_locked(op, W, view) ==
    IF op.sub # "Entry" THEN Valid
    ELSE IF ~must_get_ok(op.action.original, W, view) THEN UnresolvedDependencies
    ELSE Invalid("Updating an entry is not allowed.")

validate_RegisterUpdate(op, W, view) ==
    IF op.sub # "Entry" THEN Valid
    ELSE IF ~must_get_ok(op.action.original, W, view) THEN UnresolvedDependencies
    ELSE LET original_action == must_get(op.action.original, W) IN
         IF ~EntryCreationAction_try_from_ok(original_action)
         THEN Invalid("Expected to get EntryCreationAction from Action")
         ELSE CASE op.app_entry = "Attachment" ->
                     IF ~Entry_try_from_ok("Attachment", original_action)
                     THEN Invalid("Expected to get Attachment from Record")
                     ELSE validate_update_attachment
                [] op.app_entry = "RoomInfo" ->
                     IF ~Entry_try_from_ok("RoomInfo", original_action)
                     THEN Invalid("Expected to get RoomInfo from Record")
                     ELSE validate_update_room_info
                [] op.app_entry = "DescendentRoom" ->
                     IF ~Entry_try_from_ok("DescendentRoom", original_action)
                     THEN Invalid("Expected to get DescendentRoom from Record")
                     ELSE validate_update_descendent_room

\* validate_RegisterDelete that accepts a delete whose original it cannot get.
validate_RegisterDelete_lenient(op, W, view) ==
    IF ~must_get_ok(op.action.original, W, view) THEN Valid
    ELSE LET original_record == must_get(op.action.original, W) IN
         IF ~EntryCreationAction_try_from_ok(original_record)
         THEN Invalid("Expected to get EntryCreationAction from Action")
         ELSE IF original_record.entry_type # "App" THEN Valid
         ELSE IF original_record.entry \in {"Absent", "AbsentPrivate"}
         THEN Invalid("Original record for a delete must contain an entry")
         ELSE IF ~deserialize_from_type_some(original_record)
         THEN Invalid("Original app entry must be one of the defined entry types for this zome")
         ELSE CASE original_record.entry = "RoomInfo" -> validate_delete_room_info
                [] original_record.entry = "Attachment" -> validate_delete_attachment
                [] original_record.entry = "DescendentRoom" -> validate_delete_descendent_room

validate_RegisterDelete(op, W, view) ==
    IF ~must_get_ok(op.action.original, W, view) THEN UnresolvedDependencies
    ELSE LET original_record == must_get(op.action.original, W) IN
         IF ~EntryCreationAction_try_from_ok(original_record)
         THEN Invalid("Expected to get EntryCreationAction from Action")
         ELSE IF original_record.entry_type # "App" THEN Valid
         ELSE IF original_record.entry \in {"Absent", "AbsentPrivate"}
         THEN Invalid("Original record for a delete must contain an entry")
         ELSE IF ~deserialize_from_type_some(original_record)
         THEN Invalid("Original app entry must be one of the defined entry types for this zome")
         ELSE CASE original_record.entry = "RoomInfo" -> validate_delete_room_info
                [] original_record.entry = "Attachment" -> validate_delete_attachment
                [] original_record.entry = "DescendentRoom" -> validate_delete_descendent_room

validate_create_link(link_type, action, W, view) ==
    CASE link_type = "RoomInfoUpdates" -> validate_create_link_room_info_updates(action, W, view)
      [] link_type = "AllAgents" -> validate_create_link_all_agents(action)
      [] link_type = "AllDescendentRooms" -> validate_create_link_all_descendent_rooms(action)
      [] link_type = "AttachmentUpdates" -> validate_create_link_attachment_updates(action)
      [] link_type = "AllAttachments" -> validate_create_link_all_attachments(action)

validate_delete_link(link_type) ==
    CASE link_type = "RoomInfoUpdates" -> validate_delete_link_room_info_updates
      [] link_type = "AllAgents" -> validate_delete_link_all_agents
      [] link_type = "AllDescendentRooms" -> validate_delete_link_all_descendent_rooms
      [] link_type = "AttachmentUpdates" -> validate_delete_link_attachment_updates
      [] link_type = "AllAttachments" -> validate_delete_link_all_attachments

validate_RegisterCreateLink(op, W, view) ==
    validate_create_link(op.action.link_type, op.action, W, view)

validate_RegisterDeleteLink(op) ==
    validate_delete_link(op.original_action.link_type)

validate_StoreRecord_UpdateEntry(op, W, view) ==
    IF ~must_get_ok(op.action.original, W, view) THEN UnresolvedDependencies
    ELSE LET original_record == must_get(op.action.original, W) IN
         IF ~(original_record.type \in {"Create", "Update"})
         THEN Invalid("Original action for an update must be a Create or Update action")
         ELSE CASE op.app_entry = "RoomInfo" ->
                     IF validate_create_room_info # Valid THEN validate_create_room_info
                     ELSE IF to_app_option("RoomInfo", original_record) = "Err"
                     THEN Err("Deserialize")
                     ELSE IF to_app_option("RoomInfo", original_record) = "None"
                     THEN Invalid("The updated entry type must be the same as the original entry type")
                     ELSE validate_update_room_info
                [] op.app_entry = "Attachment" ->
                     IF validate_create_attachment # Valid THEN validate_create_attachment
                     ELSE IF to_app_option("Attachment", original_record) = "Err"
                     THEN Err("Deserialize")
                     ELSE IF to_app_option("Attachment", original_record) = "None"
                     THEN Invalid("The updated entry type must be the same as the original entry type")
                     ELSE validate_update_attachment
                [] op.app_entry = "DescendentRoom" ->
                     IF validate_create_descendent_room # Valid THEN validate_create_descendent_room
                     ELSE IF to_app_option("DescendentRoom", original_record) = "Err"
                     THEN Err("Deserialize")
                     ELSE IF to_app_option("DescendentRoom", original_record) = "None"
                     THEN Invalid("The updated entry type must be the same as the original entry type")
                     ELSE validate_update_descendent_room

validate_StoreRecord_DeleteEntry(op, W, view) ==
    IF ~must_get_ok(op.action.original, W, view) THEN UnresolvedDependencies
    ELSE LET original_record == must_get(op.action.original, W) IN
         IF ~(original_record.type \in {"Create", "Update"})
         THEN Invalid("Original action for a delete must be a Create or Update action")
         ELSE IF original_record.entry_type # "App" THEN Valid
         ELSE IF original_record.entry = "Absent"
         THEN Invalid("Original record for a delete of a public entry must contain an entry")
         ELSE IF original_record.entry = "AbsentPrivate" THEN Valid
         ELSE IF ~deserialize_from_type_some(original_record)
         THEN Invalid("Original app entry must be one of the defined entry types for this zome")
         ELSE CASE original_record.entry = "RoomInfo" -> validate_delete_room_info
                [] original_record.entry = "Attachment" -> validate_delete_attachment
                [] original_record.entry = "DescendentRoom" -> validate_delete_descendent_room

\* LinkTypes::from_type(zome_index, link_type): None for another zome's link.
validate_StoreRecord_DeleteLink(op, W, view) ==
    IF ~must_get_ok(op.action.original, W, view) THEN UnresolvedDependencies
    ELSE LET create_link == must_get(op.action.original, W) IN
         IF create_link.type # "CreateLink"
         THEN Invalid("The action that a DeleteLink deletes must be a CreateLink")
         ELSE IF ~(create_link.zome = "room" /\ create_link.link_type \in LinkTypes)
         THEN Valid
         ELSE validate_delete_link(create_link.link_type)

\* validate_StoreRecord with a rejecting default arm.
validate_StoreRecord_strict(op, W, view) ==
    CASE op.sub = "CreateEntry" ->
             (CASE op.app_entry = "RoomInfo" -> validate_create_room_info
                [] op.app_entry = "Attachment" -> validate_create_attachment
                [] op.app_entry = "DescendentRoom" -> validate_create_descendent_room)
      [] op.sub = "UpdateEntry" -> validate_StoreRecord_UpdateEntry(op, W, view)
      [] op.sub = "DeleteEntry" -> validate_StoreRecord_DeleteEntry(op, W, view)
      [] op.sub = "CreateLink" -> validate_create_link(op.action.link_type, op.action, W, view)
      [] op.sub = "DeleteLink" -> validate_StoreRecord_DeleteLink(op, W, view)
      [] OTHER -> Invalid("unexpected record")

validate_StoreRecord(op, W, view) ==
    CASE op.sub = "CreateEntry" ->
             (CASE op.app_entry = "RoomInfo" -> validate_create_room_info
                [] op.app_entry = "Attachment" -> validate_create_attachment
                [] op.app_entry = "DescendentRoom" -> validate_create_descendent_room)
      [] op.sub = "UpdateEntry" -> validate_StoreRecord_UpdateEntry(op, W, view)
      [] op.sub = "DeleteEntry" -> validate_StoreRecord_DeleteEntry(op, W, view)
      [] op.sub = "CreateLink" -> validate_create_link(op.action.link_type, op.action, W, view)
      [] op.sub = "DeleteLink" -> validate_StoreRecord_DeleteLink(op, W, view)
      [] OTHER -> Valid

\* validate_RegisterAgentActivity without the look at the previous action.
validate_RegisterAgentActivity_open(op, W, view) ==
    IF op.sub # "CreateAgent" THEN Valid
    ELSE IF ~must_get_ok(op.action.original, W, view) THEN UnresolvedDependencies
    ELSE validate_agent_joining

validate_RegisterAgentActivity(op, W, view) ==
    IF op.sub # "CreateAgent" THEN Valid
    ELSE IF ~must_get_ok(op.action.original, W, view) THEN UnresolvedDependencies
    ELSE IF must_get(op.action.original, W).type = "AgentValidationPkg"
    THEN validate_agent_joining
    ELSE Invalid("The previous action for a CreateAgent action must be an AgentValidationPkg")

\* validate(op) of the room integrity zome, run by a cell whose view of the
\* store W is view.
validate(op, W, view) ==
    CASE op.flat = "StoreEntry" -> validate_StoreEntry(op)
      [] op.flat = "RegisterUpdate" -> validate_RegisterUpdate(op, W, view)
      [] op.flat = "RegisterDelete" -> validate_RegisterDelete(op, W, view)
      [] op.flat = "RegisterCreateLink" -> validate_RegisterCreateLink(op, W, view)
      [] op.flat = "RegisterDeleteLink" -> validate_RegisterDeleteLink(op)
      [] op.flat = "StoreRecord" -> validate_StoreRecord(op, W, view)
      [] op.flat = "RegisterAgentActivity" -> validate_RegisterAgentActivity(op, W, view)

\* ------------------------------------------------------------------ unzoom integrity zome
validate_create_link_anchor_to_agent(action) ==
    IF ~AgentPubKey_try_from_ok(action.target)
    THEN Invalid("AnchorToAgent link target is not an agent public key.")
    ELSE IF action.author # AgentPubKey_try_from(action.target)
    THEN Invalid("Links from the ALL_AGENTS anchor can only be created for oneself.")
    ELSE Valid

\* A delete rule that lets any agent remove a registration, for comparison
\* with validate_delete_link_anchor_to_agent.
validate_delete_link_anchor_to_agent_by_anyone(action, target) ==
    IF ~AgentPubKey_try_from_ok(target)
    THEN Invalid("AnchorToAgent link target is not an agent public key.")
    ELSE Valid

validate_delete_link_anchor_to_agent(action, target) ==
    IF ~AgentPubKey_try_from_ok(target)
    THEN Invalid("AnchorToAgent link target is not an agent public key.")
    ELSE IF action.author # AgentPubKey_try_from(target)
    THEN Invalid("Only own links from the ALL_AGENTS anchor can be deleted.")
    ELSE Valid

NoEntryTypes == Invalid("There are no entry types in this integrity zome")

unzoom_validate_StoreRecord_DeleteLink(op, W, view) ==
    IF ~must_get_ok(op.action.original, W, view) THEN UnresolvedDependencies
    ELSE LET create_link == must_get(op.action.original, W) IN
         IF create_link.type # "CreateLink"
         THEN Invalid("The action that a DeleteLink deletes must be a CreateLink")
         ELSE IF ~(create_link.zome = "unzoom" /\ create_link.link_type \in UnzoomLinkTypes)
         THEN Valid
         ELSE IF create_link.link_type = "AnchorToAgent"
         THEN validate_delete_link_anchor_to_agent(op.action, create_link.target)
         ELSE Valid

unzoom_validate(op, W, view) ==
    CASE op.flat = "StoreEntry" ->
             IF op.sub \in {"CreateEntry", "UpdateEntry"} THEN NoEntryTypes ELSE Valid
      [] op.flat = "RegisterUpdate" -> IF op.sub = "Entry" THEN NoEntryTypes ELSE Valid
      [] op.flat = "RegisterDelete" -> IF op.sub = "Entry" THEN NoEntryTypes ELSE Valid
      [] op.flat = "RegisterCreateLink" ->
             IF op.action.link_type = "AnchorToAgent"
             THEN validate_create_link_anchor_to_agent(op.action)
             ELSE Valid
      [] op.flat = "RegisterDeleteLink" ->
             IF op.original_action.link_type = "AnchorToAgent"
             THEN validate_delete_link_anchor_to_agent(op.action, op.original_action.target)
             ELSE Valid
      [] op.flat = "StoreRecord" ->
             (CASE op.sub \in {"CreateEntry", "UpdateEntry", "DeleteEntry"} -> NoEntryTypes
                [] op.sub = "CreateLink" ->
                       IF op.action.link_type = "AnchorToAgent"
                       THEN validate_create_link_anchor_to_agent(op.action)
                       ELSE Valid
                [] op.sub = "DeleteLink" -> unzoom_validate_StoreRecord_DeleteLink(op, W, view)
                [] OTHER -> Valid)
      [] op.flat = "RegisterAgentActivity" ->
             IF op.sub # "CreateAgent" THEN Valid
             ELSE IF ~must_get_ok(op.action.original, W, view) THEN UnresolvedDependencies
             ELSE IF must_get(op.action.original, W).type = "AgentValidationPkg"
             THEN validate_agent_joining
             ELSE Invalid("The previous action for a CreateAgent action must be an AgentValidationPkg")

\* The validate callback of the integrity zome of the op's DNA.
validate_op(op, W, view) ==
    IF op.dna = "room" THEN validate(op, W, view) ELSE unzoom_validate(op, W, view)

\* ------------------------------------------------------------------ validation of one op
VARIABLES
    op,             \* the op under validation (a FlatOp)
    view,           \* view[a]: the action hashes cell a holds of the store
    verdict,        \* verdict[a]: what a's last validate(op) returned
    validated_view  \* validated_view[a]: a's view when it last ran validate(op)

valVars == <<op, view, verdict, validated_view>>

\* ------------------------------------------------------------------ the store
VARIABLES
    dht,      \* every action committed so far; an action's hash is its index
    visible,  \* visible[a]: the action hashes cell a holds (own and received)
    ret       \* the last zome call: its function, caller, input and result

storeVars == <<dht, visible, ret>>

\* ------------------------------------------------------------------ remote signals
\* The agents a ping is addressed to, and the signals sent by zome calls of
\* one run, are bounded.
MaxSignals == 2

ConnectionIds == {"c1"}
SdpStrings == {"sdp"}

\* enum SignalPayload, tagged by "type".
Payload(type, from_agent, connection_id, data) ==
    [type |-> type, from_agent |-> from_agent, connection_id |-> connection_id, data |-> data]

SignalPayload ==
    {Payload(type, a, "", "") : type \in {"Ping", "Pong", "PingUi", "PongUi"}, a \in Agents}
    \cup {Payload(type, a, c, "") : type \in {"InitRequest", "InitAccept"}, a \in Agents,
                                      c \in ConnectionIds}
    \cup {Payload("SdpData", a, c, d) : a \in Agents, c \in ConnectionIds, d \in SdpStrings}

\* A remote signal on its way: the encoded payload and the agent it goes to.
Signal(to, payload) == [to |-> to, payload |-> payload]
Signals == {Signal(to, payload) : to \in Agents, payload \in SignalPayload}

VARIABLES
    net,     \* the bag of the remote signals on their way
    ui,      \* ui[a]: whether the UI of a's cell is running
    sig,     \* the last call of the signals zome: function, cell, input, effects
    nsent,   \* the remote signals zome calls of the UIs have sent so far
    pinged,  \* pinged[a][b]: the Ping signals a's ping calls have sent to b
    ponged   \* ponged[a][b]: the Pong signals of b that a's cell has received

sigVars == <<net, ui, sig, nsent, pinged, ponged>>

NoSig == [fn |-> "none", agent |-> 0, input |-> <<>>, ok |-> TRUE, sent |-> <<>>, emitted |-> <<>>]

InitSignals ==
    /\ net = EmptyBag
    /\ ui = [a \in Agents |-> FALSE]
    /\ sig = NoSig
    /\ nsent = 0
    /\ pinged = [a \in Agents |-> [b \in Agents |-> 0]]
    /\ ponged = [a \in Agents |-> [b \in Agents |-> 0]]

vars == <<op, view, verdict, validated_view, dht, visible, ret, net, ui, sig, nsent, pinged, ponged>>

\* The result of a zome call.  ok: Ok(..) or Err(err); an Option<..> is
\* Some (some = TRUE) or None; val holds the records (by action hash) of a
\* Some(record) or of a Vec; links is what get_links returned to the call,
\* in the order returned; issued is what the call wrote through the host.
Ret(fn, kind, caller, original, previous, ok, some, val, err, links, issued) ==
    [fn |-> fn, kind |-> kind, caller |-> caller, original |-> original, previous |-> previous,
     ok |-> ok, some |-> some, val |-> val, err |-> err,
     links |-> links, issued |-> issued]
NoRet == Ret("none", "NA", 0, 0, 0, TRUE, FALSE, <<>>, "", <<>>, <<>>)

\* ExternResult values of the resolver functions
OkOpt(v) == [ok |-> TRUE, some |-> v # <<>>, val |-> v, err |-> ""]
OkVec(v) == [ok |-> TRUE, some |-> TRUE, val |-> v, err |-> ""]
OkNone == [ok |-> TRUE, some |-> FALSE, val |-> <<>>, err |-> ""]
ErrGuest(e) == [ok |-> FALSE, some |-> FALSE, val |-> <<>>, err |-> e]

\* The records the ops of this specification refer to, by action hash.
World ==
    << CreateAct(1, 1, "RoomInfo"),
       CreateAct(1, 1, "Attachment"),
       CreateAct(2, 1, "DescendentRoom"),
       UpdateAct(2, 2, "Attachment", 2),
       Act("Create", 1, 1, "CapGrant", "NA", "NA", 0, "NA", NoHash, NoHash, "NA"),
       Act("Create", 1, 1, "App", "other", "Foreign", 0, "NA", NoHash, NoHash, "NA"),
       Act("Create", 2, 1, "App", "room", "Absent", 0, "NA", NoHash, NoHash, "NA"),
       Act("Create", 2, 1, "App", "other", "AbsentPrivate", 0, "NA", NoHash, NoHash, "NA"),
       CreateLinkAct(1, 1, "room", "AllAgents", path_entry_hash("ALL_AGENTS"), AgentAsLinkable(1), "utf8"),
       CreateLinkAct(2, 1, "room", "RoomInfoUpdates", path_entry_hash(ROOM_INFO), ActionHash(1), "utf8"),
       CreateLinkAct(2, 1, "room", "AllDescendentRooms", path_entry_hash("ALL_DESCENDENT_ROOMS"), AgentAsLinkable(2), "utf8"),
       CreateLinkAct(2, 2, "room", "AttachmentUpdates", ActionHash(2), ActionHash(4), "utf8"),
       CreateLinkAct(1, 1, "room", "AllAttachments", path_entry_hash("all_attachments"), ActionHash(2), "utf8"),
       CreateLinkAct(1, 1, "unzoom", "AnchorToAgent", path_entry_hash("ALL_AGENTS"), AgentAsLinkable(1), "utf8"),
       CreateLinkAct(2, 1, "unzoom", "AgentAnchor", AgentAsLinkable(2), path_entry_hash("ALL_AGENTS"), "utf8"),
       OtherAct("AgentValidationPkg", 1, 1, 0),
       DeleteAct(1, 2, 2),
       Act("AgentValidationPkg", 2, 1, "NA", "NA", "NA", 0, "NA", NoHash, NoHash, "membrane_proof"),
       CreateLinkAct(1, 1, "unzoom", "AnchorToAgent", path_entry_hash("ALL_AGENTS"), ActionHash(1), "utf8") >>

WorldIds == DOMAIN World
Dnas == {"room", "unzoom"}
ZomeLinkTypes(dna) == IF dna = "room" THEN LinkTypes ELSE UnzoomLinkTypes
Tags == {"utf8", "not_utf8"}
LinkBases ==
    {path_entry_hash(ROOM_INFO), path_entry_hash("ALL_AGENTS"), ActionHash(1), ExternalHash(1)}
LinkTargets ==
    {AgentAsLinkable(a) : a \in Agents}
        \cup {path_entry_hash(ROOM_INFO), ActionHash(1), ActionHash(2), ActionHash(3), ActionHash(9),
              ExternalHash(1)}

Op(dna, flat, sub, app_entry, action, original_action) ==
    [dna |-> dna, flat |-> flat, sub |-> sub, app_entry |-> app_entry,
     action |-> action, original_action |-> original_action]

CreateEntryOps ==
    {Op(d, f, "CreateEntry", k, CreateAct(a, 1, k), NoAct) :
        d \in Dnas, f \in {"StoreEntry", "StoreRecord"}, k \in EntryKinds, a \in Agents}
UpdateEntryOps ==
    {Op(d, fs[1], fs[2], k, UpdateAct(a, 1, k, o), NoAct) :
        d \in Dnas,
        fs \in {<<"StoreEntry", "UpdateEntry">>, <<"RegisterUpdate", "Entry">>,
                <<"StoreRecord", "UpdateEntry">>},
        k \in EntryKinds, a \in Agents, o \in WorldIds}
DeleteEntryOps ==
    {Op(d, fs[1], fs[2], "NA", DeleteAct(a, t, o), NoAct) :
        d \in Dnas,
        fs \in {<<"RegisterDelete", "Entry">>, <<"StoreRecord", "DeleteEntry">>},
        a \in Agents, t \in Times, o \in WorldIds}
CreateLinkOps ==
    UNION {{Op(d, fs[1], fs[2], "NA", CreateLinkAct(a, 1, d, lt, b, tg, tag), NoAct) :
               fs \in {<<"RegisterCreateLink", "CreateLink">>, <<"StoreRecord", "CreateLink">>},
               lt \in ZomeLinkTypes(d), a \in Agents, b \in LinkBases,
               tg \in LinkTargets, tag \in Tags} : d \in Dnas}
RegisterDeleteLinkOps ==
    UNION {{Op(d, "RegisterDeleteLink", "DeleteLink", "NA", DeleteLinkAct(a, t, o), World[o]) :
               a \in Agents, t \in Times,
               o \in {i \in WorldIds : World[i].type = "CreateLink" /\ World[i].zome = d}} :
           d \in Dnas}
StoreDeleteLinkOps ==
    {Op(d, "StoreRecord", "DeleteLink", "NA", DeleteLinkAct(a, t, o), NoAct) :
        d \in Dnas, a \in Agents, t \in Times, o \in WorldIds}
OtherOps ==
    {Op(d, fs[1], fs[2], "NA", OtherAct(fs[2], a, 1, 0), NoAct) :
        d \in Dnas,
        fs \in {<<"StoreEntry", "CreateAgent">>, <<"RegisterUpdate", "Agent">>,
                <<"RegisterDelete", "Other">>,
                <<"StoreRecord", "CreatePrivateEntry">>, <<"StoreRecord", "UpdatePrivateEntry">>,
                <<"StoreRecord", "CreateCapClaim">>, <<"StoreRecord", "CreateCapGrant">>,
                <<"StoreRecord", "UpdateCapClaim">>, <<"StoreRecord", "UpdateCapGrant">>,
                <<"StoreRecord", "Dna">>, <<"StoreRecord", "OpenChain">>,
                <<"StoreRecord", "CloseChain">>, <<"StoreRecord", "InitZomesComplete">>,
                <<"StoreRecord", "AgentValidationPkg">>,
                <<"RegisterAgentActivity", "Other">>},
        a \in Agents}
CreateAgentOps ==
    {Op(d, "RegisterAgentActivity", "CreateAgent", "NA", OtherAct("CreateAgent", a, 1, o), NoAct) :
        d \in Dnas, a \in Agents, o \in WorldIds}

Ops ==
    CreateEntryOps \cup UpdateEntryOps \cup DeleteEntryOps \cup CreateLinkOps
        \cup RegisterDeleteLinkOps \cup StoreDeleteLinkOps \cup OtherOps \cup CreateAgentOps

\* The action hashes an op refers to: what validate may have to fetch.
OpDeps(o) ==
    ({o.action.original} \cup
        (IF into_action_hash_ok(o.action.target) THEN {into_action_hash(o.action.target)} ELSE {}))
    \cap WorldIds

InitValidate ==
    /\ op \in Ops
    /\ view = [a \in Agents |-> {}]
    /\ verdict = [a \in Agents |-> NotRun]
    /\ validated_view = [a \in Agents |-> {}]
    /\ dht = World
    /\ visible = [a \in Agents |-> {}]
    /\ ret = NoRet
    /\ InitSignals

\* Cell a receives (by gossip or by fetching it) a record the op refers to.
Fetch(a) ==
    /\ \E h \in OpDeps(op) \ view[a] : view' = [view EXCEPT ![a] = @ \cup {h}]
    /\ UNCHANGED <<op, verdict, validated_view, storeVars, sigVars>>

\* Cell a runs the validate callback on the op.
RunValidate(a) ==
    /\ verdict' = [verdict EXCEPT ![a] = validate_op(op, World, view[a])]
    /\ validated_view' = [validated_view EXCEPT ![a] = view[a]]
    /\ UNCHANGED <<op, view, storeVars, sigVars>>

NextValidate == \E a \in Agents : Fetch(a) \/ RunValidate(a)

SpecValidate == InitValidate /\ [][NextValidate]_vars

\* ------------------------------------------------------------------ claims on validate
Ran(a) == verdict[a] # NotRun

IsMembershipCreateLink(o) ==
    /\ o.sub = "CreateLink"
    /\ \/ o.dna = "room" /\ o.action.link_type = "AllAgents"
       \/ o.dna = "unzoom" /\ o.action.link_type = "AnchorToAgent"

TargetIsAuthorKey(o) ==
    /\ AgentPubKey_try_from_ok(o.action.target)
    /\ AgentPubKey_try_from(o.action.target) = o.action.author

\* C1: a CreateLink of type AllAgents (room) or AnchorToAgent (unzoom), on the
\* RegisterCreateLink and on the StoreRecord/CreateLink path, is Valid exactly
\* when its target parses as an agent key equal to the action's author, and
\* Invalid in every other case.
C1_SelfRegistrationOnly ==
    \A a \in Agents :
        (Ran(a) /\ IsMembershipCreateLink(op)) =>
            /\ (verdict[a] = Valid) <=> TargetIsAuthorKey(op)
            /\ (verdict[a] # Valid) => verdict[a].tag = "Invalid"

C1_Witness ==
    \E a \in Agents :
        /\ IsMembershipCreateLink(op) /\ op.dna = "room" /\ op.flat = "StoreRecord"
        /\ TargetIsAuthorKey(op) /\ verdict[a] = Valid

AppendOnlyLinkTypes == {"AllAgents", "RoomInfoUpdates"}

\* The room link type of the CreateLink a DeleteLink op deletes.  The
\* RegisterDeleteLink op carries the CreateLink; on the StoreRecord path it
\* is the record at the op's original_action_hash.
OriginalLinkType(o) ==
    IF o.flat = "RegisterDeleteLink" THEN o.original_action.link_type
    ELSE IF /\ o.action.original \in WorldIds
            /\ World[o.action.original].type = "CreateLink"
            /\ World[o.action.original].zome = "room"
    THEN World[o.action.original].link_type
    ELSE "NA"

IsRoomDeleteLink(o) ==
    o.dna = "room" /\ o.sub = "DeleteLink" /\ o.flat \in {"RegisterDeleteLink", "StoreRecord"}

\* The cell held the record the op's action refers to when it ran validate.
HeldOriginal(a) == op.flat = "RegisterDeleteLink" \/ op.action.original \in validated_view[a]

\* C2: a DeleteLink whose original CreateLink is an AllAgents or a
\* RoomInfoUpdates link is Invalid whatever its author, base, target and tag,
\* on the RegisterDeleteLink and on the StoreRecord/DeleteLink path (where the
\* cell reads the original CreateLink from its store); it is never Valid.
C2_AppendOnlyLinksNotDeletable ==
    \A a \in Agents :
        (Ran(a) /\ IsRoomDeleteLink(op) /\ OriginalLinkType(op) \in AppendOnlyLinkTypes) =>
            /\ verdict[a] # Valid
            /\ HeldOriginal(a) => verdict[a].tag = "Invalid"

C2_Witness ==
    \E a \in Agents :
        /\ IsRoomDeleteLink(op) /\ op.flat = "StoreRecord"
        /\ OriginalLinkType(op) = "RoomInfoUpdates"
        /\ op.action.author # World[op.action.original].author
        /\ HeldOriginal(a) /\ verdict[a].tag = "Invalid"

IsRoomDeleteEntry(o) ==
    /\ o.dna = "room"
    /\ \/ o.flat = "RegisterDelete" /\ o.sub = "Entry"
       \/ o.flat = "StoreRecord" /\ o.sub = "DeleteEntry"

OriginalEntryKind(o) ==
    IF /\ o.action.original \in WorldIds
       /\ World[o.action.original].type \in {"Create", "Update"}
       /\ World[o.action.original].entry_type = "App"
       /\ World[o.action.original].zome = "room"
    THEN World[o.action.original].entry
    ELSE "NA"

\* C3: a Delete whose original entry is a RoomInfo or a DescendentRoom is
\* never Valid, on the RegisterDelete and on the StoreRecord/DeleteEntry path:
\* the verdict is Invalid for every author and timestamp of the Delete.
C3_NonDeletableKinds ==
    \A a \in Agents :
        (Ran(a) /\ IsRoomDeleteEntry(op)
               /\ OriginalEntryKind(op) \in {"RoomInfo", "DescendentRoom"}) =>
            /\ verdict[a] # Valid
            /\ (op.action.original \in validated_view[a]) => verdict[a].tag = "Invalid"

C3_Witness ==
    \E a \in Agents :
        /\ IsRoomDeleteEntry(op) /\ op.flat = "StoreRecord"
        /\ OriginalEntryKind(op) = "DescendentRoom"
        /\ op.action.author # World[op.action.original].author
        /\ op.action.timestamp = MaxTime
        /\ verdict[a] = validate_delete_descendent_room

Decided(a) == verdict[a].tag \notin {"NotRun", "UnresolvedDependencies"}

IsRoomCreateLink(o, link_type) ==
    /\ o.dna = "room" /\ o.sub = "CreateLink" /\ o.action.link_type = link_type
    /\ o.flat \in {"RegisterCreateLink", "StoreRecord"}

\* The cell held the record the link's target names when it ran validate.
HeldTarget(a) ==
    /\ into_action_hash_ok(op.action.target)
    /\ into_action_hash(op.action.target) \in validated_view[a] \cap WorldIds

\* C13 as stated: a CreateLink of type RoomInfoUpdates is Valid only if its
\* base is the entry hash of the ROOM_INFO anchor and its target is an action
\* hash resolving to a record whose entry is a RoomInfo; a base that is not
\* an entry hash or not the anchor hash yields Invalid.
C13_ValidOnlyForRoomInfoTarget ==
    \A a \in Agents :
        (Ran(a) /\ IsRoomCreateLink(op, "RoomInfoUpdates")) =>
            /\ (verdict[a] = Valid) =>
                  /\ EntryHash_try_from_ok(op.action.base)
                  /\ op.action.base = path_entry_hash(ROOM_INFO)
                  /\ HeldTarget(a)
                  /\ World[into_action_hash(op.action.target)].entry = "RoomInfo"
            /\ (op.action.base # path_entry_hash(ROOM_INFO)) => verdict[a].tag = "Invalid"

\* C14: a CreateLink of type AllDescendentRooms is Valid exactly when its
\* target parses as an agent key equal to the author and its tag is valid
\* UTF-8; with the author check passed and a tag that is not UTF-8 it is
\* Invalid for the tag's format; with a target that is not the author's key
\* it is Invalid.
C14_DescendentRoomLinkSelfAndTag ==
    \A a \in Agents :
        (Ran(a) /\ IsRoomCreateLink(op, "AllDescendentRooms")) =>
            /\ (verdict[a] = Valid) <=> (TargetIsAuthorKey(op) /\ op.action.tag = "utf8")
            /\ (TargetIsAuthorKey(op) /\ op.action.tag # "utf8") =>
                  verdict[a] = Invalid("LinkTag is of a format that cannot be converted to a String.")
            /\ ~TargetIsAuthorKey(op) => verdict[a].tag = "Invalid"

C14_Witness ==
    \E a \in Agents :
        /\ IsRoomCreateLink(op, "AllDescendentRooms") /\ op.flat = "StoreRecord"
        /\ TargetIsAuthorKey(op) /\ op.action.tag = "not_utf8"
        /\ verdict[a].tag = "Invalid"

\* C15 as stated: a rejection is always the value Invalid(reason), validate
\* never ends in an error for an op that breaks a rule, a link target or tag
\* that does not decode included.
C15_RejectionsAreInvalidNeverErr ==
    \A a \in Agents : Ran(a) => verdict[a].tag # "Err"

\* What system validation, which precedes validate, lets through: an Update
\* supersedes an entry creation of its own entry type.
SysValidUpdate(o) ==
    /\ o.action.original \in WorldIds
    /\ World[o.action.original].type \in {"Create", "Update"}
    /\ World[o.action.original].entry_type = o.action.entry_type
    /\ World[o.action.original].zome = o.action.zome
    /\ World[o.action.original].entry = o.action.entry

IsRoomUpdateEntry(o) ==
    /\ o.dna = "room"
    /\ \/ o.flat = "RegisterUpdate" /\ o.sub = "Entry"
       \/ o.flat = "StoreRecord" /\ o.sub = "UpdateEntry"

\* C16: every Create, Update and Delete whose entry is an Attachment is
\* Valid on every op path: StoreEntry and StoreRecord of the Create,
\* StoreEntry, StoreRecord and RegisterUpdate of an Update of an Attachment,
\* RegisterDelete and StoreRecord of a Delete of an Attachment (the last
\* four once the cell holds the record the action refers to).
C16_AttachmentOpsValid ==
    \A a \in Agents :
        Ran(a) =>
            /\ (/\ op.dna = "room" /\ op.app_entry = "Attachment"
                /\ op.sub \in {"CreateEntry", "UpdateEntry"}
                /\ op.flat = "StoreEntry" \/ op.sub = "CreateEntry") => verdict[a] = Valid
            /\ (/\ IsRoomUpdateEntry(op) /\ op.app_entry = "Attachment"
                /\ SysValidUpdate(op) /\ HeldOriginal(a)) => verdict[a] = Valid
            /\ (/\ IsRoomDeleteEntry(op) /\ OriginalEntryKind(op) = "Attachment"
                /\ HeldOriginal(a)) => verdict[a] = Valid

C16_Witness ==
    \E a \in Agents :
        /\ IsRoomUpdateEntry(op) /\ op.flat = "RegisterUpdate" /\ op.app_entry = "Attachment"
        /\ SysValidUpdate(op) /\ World[op.action.original].type = "Update"
        /\ HeldOriginal(a) /\ verdict[a] = Valid

\* C17: every Create of a RoomInfo or DescendentRoom is Valid; an Update
\* whose new entry is a RoomInfo or a DescendentRoom is never Valid, and it
\* is Invalid, whatever its author, on the RegisterUpdate path and, for an
\* Update that supersedes an entry of its own type, on the
\* StoreRecord/UpdateEntry path.
C17_CreateOnceKinds ==
    \A a \in Agents :
        (Ran(a) /\ op.dna = "room" /\ op.app_entry \in {"RoomInfo", "DescendentRoom"}) =>
            /\ (op.sub = "CreateEntry" /\ op.flat \in {"StoreEntry", "StoreRecord"})
                  => verdict[a] = Valid
            /\ IsRoomUpdateEntry(op) => verdict[a] # Valid
            /\ (IsRoomUpdateEntry(op) /\ HeldOriginal(a)
                  /\ (op.flat = "RegisterUpdate" \/ SysValidUpdate(op)))
                  => verdict[a].tag = "Invalid"
            /\ (IsRoomUpdateEntry(op) /\ HeldOriginal(a) /\ SysValidUpdate(op)
                  /\ op.app_entry = "RoomInfo")
                  => verdict[a] = Invalid("Updating a RoomInfo entry is not allowed.")

C17_Witness ==
    \E a \in Agents :
        /\ IsRoomUpdateEntry(op) /\ op.flat = "StoreRecord" /\ op.app_entry = "DescendentRoom"
        /\ SysValidUpdate(op) /\ op.action.author # World[op.action.original].author
        /\ HeldOriginal(a) /\ verdict[a].tag = "Invalid"

IsCreateAgentOp(o) == o.flat = "RegisterAgentActivity" /\ o.sub = "CreateAgent"

\* C18: a RegisterAgentActivity/CreateAgent op is Valid exactly when the
\* action its prev_action names is an AgentValidationPkg, with or without a
\* membrane proof, and Invalid when it is of another type; every other
\* agent-activity op is Valid.  In both DNAs.
C18_AgentJoinGate ==
    \A a \in Agents :
        Ran(a) =>
            /\ (IsCreateAgentOp(op) /\ HeldOriginal(a)) =>
                  /\ (verdict[a] = Valid) <=> (World[op.action.original].type = "AgentValidationPkg")
                  /\ (verdict[a] # Valid) => verdict[a].tag = "Invalid"
            /\ (op.flat = "RegisterAgentActivity" /\ op.sub # "CreateAgent") => verdict[a] = Valid

C18_Witness ==
    \E a \in Agents :
        /\ IsCreateAgentOp(op) /\ op.dna = "room" /\ HeldOriginal(a)
        /\ World[op.action.original].type = "AgentValidationPkg"
        /\ World[op.action.original].tag = "membrane_proof"
        /\ verdict[a] = Valid

RemovableLinkTypes == {"AllDescendentRooms", "AllAttachments", "AttachmentUpdates"}

\* C19: a DeleteLink whose original CreateLink is an AllDescendentRooms, an
\* AllAttachments or an AttachmentUpdates link is Valid for every deleting
\* author, the link's creator or not, on both op paths.
C19_RemovableLinks ==
    \A a \in Agents :
        (/\ Ran(a) /\ IsRoomDeleteLink(op) /\ OriginalLinkType(op) \in RemovableLinkTypes
         /\ HeldOriginal(a)) => verdict[a] = Valid

C19_Witness ==
    \E a \in Agents :
        /\ IsRoomDeleteLink(op) /\ op.flat = "StoreRecord"
        /\ OriginalLinkType(op) = "AllDescendentRooms"
        /\ op.action.author # World[op.action.original].author
        /\ HeldOriginal(a) /\ verdict[a] = Valid

DefaultRecordKinds ==
    {"CreatePrivateEntry", "UpdatePrivateEntry", "CreateCapClaim", "CreateCapGrant",
     "UpdateCapClaim", "UpdateCapGrant", "Dna", "OpenChain", "CloseChain",
     "InitZomesComplete", "AgentValidationPkg"}

\* C20: an op of the room DNA that matches no explicit rule is Valid: a
\* StoreEntry other than an app-entry Create/Update, a RegisterUpdate other
\* than an app-entry update, the StoreRecord ops of private entries, cap
\* claims and grants, Dna, OpenChain, CloseChain and InitZomesComplete, an
\* agent-activity op other than CreateAgent, a Delete whose original is not
\* an app entry, and a StoreRecord/DeleteLink of another zome's link.
C20_PermissiveDefault ==
    \A a \in Agents :
        (Ran(a) /\ op.dna = "room") =>
            /\ (op.flat = "StoreEntry" /\ op.sub \notin {"CreateEntry", "UpdateEntry"})
                  => verdict[a] = Valid
            /\ (op.flat = "RegisterUpdate" /\ op.sub # "Entry") => verdict[a] = Valid
            /\ (op.flat = "StoreRecord" /\ op.sub \in DefaultRecordKinds) => verdict[a] = Valid
            /\ (op.flat = "RegisterAgentActivity" /\ op.sub # "CreateAgent") => verdict[a] = Valid
            /\ (/\ IsRoomDeleteEntry(op) /\ HeldOriginal(a)
                /\ World[op.action.original].type \in {"Create", "Update"}
                /\ World[op.action.original].entry_type # "App") => verdict[a] = Valid
            /\ (/\ op.flat = "StoreRecord" /\ op.sub = "DeleteLink" /\ HeldOriginal(a)
                /\ World[op.action.original].type = "CreateLink"
                /\ World[op.action.original].zome # "room") => verdict[a] = Valid

C20_Witness ==
    \E a \in Agents :
        /\ op.dna = "room" /\ op.flat = "StoreRecord" /\ op.sub = "DeleteLink"
        /\ HeldOriginal(a) /\ World[op.action.original].type = "CreateLink"
        /\ World[op.action.original].zome = "unzoom"
        /\ verdict[a] = Valid

\* ------------------------------------------------------------------ host reads (HDK)
\* The reads of a cell whose view of the store W is vw.

\* get(action_hash, options): the record, unless the cell does not hold it
\* or holds a Delete of it.
get(h, W, vw) ==
    IF /\ h \in vw /\ h \in DOMAIN W
       /\ ~\E d \in vw \cap DOMAIN W : W[d].type = "Delete" /\ W[d].original = h
    THEN <<h>>
    ELSE <<>>

\* get_details(action_hash, options) is Some(Details::Record(..)) when the
\* cell holds the action, with the Delete actions it holds of it.
get_details_some(h, W, vw) == h \in vw /\ h \in DOMAIN W
details_deletes(h, W, vw) ==
    {d \in vw \cap DOMAIN W : W[d].type = "Delete" /\ W[d].original = h}

\* get_links(base, link_type): the CreateLinks the cell holds on that base
\* with no DeleteLink it holds.  The host returns them as a Vec; the
\* calls below take that Vec in whatever order the host chose.
get_links(base, link_type, W, vw) ==
    {l \in vw \cap DOMAIN W :
        /\ W[l].type = "CreateLink" /\ W[l].zome = "room"
        /\ W[l].link_type = link_type /\ W[l].base = base
        /\ ~\E d \in vw \cap DOMAIN W : W[d].type = "DeleteLink" /\ W[d].original = l}

\* The orders a Vec of the elements of S can have.
Orders(S) ==
    {s \in [1..Cardinality(S) -> S] : \A i, j \in 1..Cardinality(S) : s[i] = s[j] => i = j}

\* ------------------------------------------------------------------ revision resolver
UpdatesLinkType(kind) == IF kind = "RoomInfo" THEN "RoomInfoUpdates" ELSE "AttachmentUpdates"

\* A fold that keeps the link with the smallest timestamp instead.
RECURSIVE min_by(_, _)
min_by(links, W) ==
    IF Len(links) = 1 THEN links[1]
    ELSE LET x == min_by(SubSeq(links, 1, Len(links) - 1), W)
             y == links[Len(links)]
         IN  IF W[x].timestamp < W[y].timestamp THEN x ELSE y

\* Iterator::max_by(|a, b| a.timestamp.cmp(&b.timestamp)) on a non-empty Vec:
\* a fold that keeps the later element unless the earlier compares Greater.
RECURSIVE max_by(_, _)
max_by(links, W) ==
    IF Len(links) = 1 THEN links[1]
    ELSE LET x == max_by(SubSeq(links, 1, Len(links) - 1), W)
             y == links[Len(links)]
         IN  IF W[x].timestamp > W[y].timestamp THEN x ELSE y

\* A get_latest that reports an original it cannot resolve as an error.
get_latest_strict(original, links, W, vw) ==
    IF links = <<>> /\ get(original, W, vw) = <<>> THEN ErrGuest("original not found")
    ELSE IF links = <<>> THEN OkOpt(get(original, W, vw))
    ELSE OkOpt(get(into_action_hash(W[links[Len(links)]].target), W, vw))

\* get_latest_attachment / get_latest_room_info, links being the Vec
\* get_links returned for the original.
\* A resolver that falls back to the original when the newest revision does
\* not resolve, for comparison with get_latest.
get_latest_fallback(original, links, W, vw) ==
    IF links = <<>> THEN OkOpt(get(original, W, vw))
    ELSE LET link == W[max_by(links, W)] IN
         IF ~into_action_hash_ok(link.target) THEN OkOpt(get(original, W, vw))
         ELSE IF get(into_action_hash(link.target), W, vw) = <<>>
         THEN OkOpt(get(original, W, vw))
         ELSE OkOpt(get(into_action_hash(link.target), W, vw))

get_latest(original, links, W, vw) ==
    IF links = <<>> THEN OkOpt(get(original, W, vw))
    ELSE LET link == W[max_by(links, W)] IN
         IF ~into_action_hash_ok(link.target)
         THEN ErrGuest("No action hash associated with link")
         ELSE OkOpt(get(into_action_hash(link.target), W, vw))

\* A get_original that answers with get(), which hides a deleted record.
get_original_live(original, W, vw) == OkOpt(get(original, W, vw))

\* get_original_attachment / get_original_room_info
get_original(original, W, vw) ==
    IF ~get_details_some(original, W, vw) THEN OkNone
    ELSE OkOpt(<<original>>)

\* HDK.get(get_input) followed by filter_map(|r| r): the records of the
\* targets that resolve, in the links' order.
RECURSIVE get_each(_, _, _)
get_each(links, W, vw) ==
    IF links = <<>> THEN <<>>
    ELSE get(into_action_hash(W[Head(links)].target), W, vw) \o get_each(Tail(links), W, vw)

\* A get_all_revisions that leaves the original out of its result.
get_all_revisions_without_original(original, links, W, vw) ==
    IF ~get_original(original, W, vw).some THEN OkVec(<<>>)
    ELSE IF \E j \in 1..Len(links) : ~into_action_hash_ok(W[links[j]].target)
    THEN ErrGuest("No action hash associated with link")
    ELSE OkVec(get_each(links, W, vw))

\* get_all_revisions_for_attachment / get_all_revisions_for_room_info
get_all_revisions(original, links, W, vw) ==
    IF ~get_original(original, W, vw).some THEN OkVec(<<>>)
    ELSE IF \E j \in 1..Len(links) : ~into_action_hash_ok(W[links[j]].target)
    THEN ErrGuest("No action hash associated with link")
    ELSE OkVec(<<original>> \o get_each(links, W, vw))

\* The links of a Vec whose target is an action hash, in the Vec's order.
RECURSIVE action_hash_targets(_, _)
action_hash_targets(links, W) ==
    IF links = <<>> THEN <<>>
    ELSE (IF into_action_hash_ok(W[Head(links)].target) THEN <<Head(links)>> ELSE <<>>)
            \o action_hash_targets(Tail(links), W)

\* get_all_attachments, links being the Vec get_links returned for the
\* anchor: a target that is no action hash is skipped, a target that does
\* not resolve adds nothing.
get_all_attachments(links, W, vw) ==
    OkVec(get_each(action_hash_targets(links, W), W, vw))

\* get_all_deletes_for_attachment, deletes being the Vec of the details.
get_all_deletes(original, deletes, W, vw) ==
    IF ~get_details_some(original, W, vw) THEN OkNone
    ELSE OkVec(deletes)

\* Vec::sort_by on the timestamps: a stable sort.
RECURSIVE insert_sorted(_, _, _)
insert_sorted(x, sorted, W) ==
    IF sorted = <<>> THEN <<x>>
    ELSE IF W[Head(sorted)].timestamp > W[x].timestamp THEN <<x>> \o sorted
    ELSE <<Head(sorted)>> \o insert_sorted(x, Tail(sorted), W)

RECURSIVE sort_by_timestamp(_, _)
sort_by_timestamp(s, W) ==
    IF s = <<>> THEN <<>>
    ELSE insert_sorted(s[Len(s)], sort_by_timestamp(SubSeq(s, 1, Len(s) - 1), W), W)

\* A get_oldest_delete that takes the last of the sorted deletes.
get_newest_delete(original, deletes, W, vw) ==
    IF ~get_all_deletes(original, deletes, W, vw).some THEN OkNone
    ELSE LET sorted == sort_by_timestamp(deletes, W) IN
         IF sorted = <<>> THEN OkNone ELSE OkOpt(<<sorted[Len(sorted)]>>)

\* get_oldest_delete_for_attachment
get_oldest_delete(original, deletes, W, vw) ==
    IF ~get_all_deletes(original, deletes, W, vw).some THEN OkNone
    ELSE LET sorted == sort_by_timestamp(deletes, W) IN
         IF sorted = <<>> THEN OkNone ELSE OkOpt(<<Head(sorted)>>)

\* ------------------------------------------------------------------ read strategies
GetStrategies == {"Local", "Network"}

\* GetOptions::default() and GetLinksInputBuilder::build() read from the network.
GetOptions_default == "Network"

\* ZomeFnInput::get_strategy / get_options: the strategy the caller put in
\* the input.
ZomeFnInput_get_strategy(strategy) == strategy

\* The host reads a call issues, each with the strategy it is given, for a
\* caller asking for strategy.  The functions on attachments take a
\* ZomeFnInput, those on the room description take the bare hash.
host_reads(fn, kind, strategy) ==
    LET s == IF kind = "RoomInfo" THEN GetOptions_default
             ELSE ZomeFnInput_get_strategy(strategy)
    IN  CASE fn = "get_latest" -> {<<"get_links", s>>, <<"get", s>>}
          [] fn = "get_original" -> {<<"get_details", s>>}
          [] fn = "get_all_revisions" -> {<<"get_details", s>>, <<"get_links", s>>, <<"get", s>>}
          [] fn \in {"get_all_deletes", "get_oldest_delete"} ->
                {<<"get_details", ZomeFnInput_get_strategy(strategy)>>}
          [] fn = "get_all_attachments" ->
                {<<"get_links", ZomeFnInput_get_strategy(strategy)>>,
                 <<"get", ZomeFnInput_get_strategy(strategy)>>}
          [] fn = "get_all_agents" -> {<<"get_links", GetOptions_default>>}
          [] fn = "get_all_descendent_rooms" -> {<<"get_links", "Local">>, <<"get", "Local">>}
          [] OTHER -> {}

\* ------------------------------------------------------------------ resolver calls
\* A zome call of cell a; its result is kept in ret.
Returned(fn, kind, a, original, previous, res, links, issued) ==
    Ret(fn, kind, a, original, previous, res.ok, res.some, res.val, res.err, links, issued)

Call_get_latest(a, kind, original) ==
    /\ \E links \in Orders(get_links(ActionHash(original), UpdatesLinkType(kind), dht, visible[a])) :
          ret' = Returned("get_latest", kind, a, original, 0,
                          get_latest(original, links, dht, visible[a]), links, <<>>)
    /\ UNCHANGED <<dht, visible, valVars, sigVars>>

Call_get_original(a, kind, original) ==
    /\ ret' = Returned("get_original", kind, a, original, 0,
                       get_original(original, dht, visible[a]), <<>>, <<>>)
    /\ UNCHANGED <<dht, visible, valVars, sigVars>>

Call_get_all_revisions(a, kind, original) ==
    /\ \E links \in Orders(get_links(ActionHash(original), UpdatesLinkType(kind), dht, visible[a])) :
          ret' = Returned("get_all_revisions", kind, a, original, 0,
                          get_all_revisions(original, links, dht, visible[a]), links, <<>>)
    /\ UNCHANGED <<dht, visible, valVars, sigVars>>

Call_get_all_deletes(a, original) ==
    /\ \E deletes \in Orders(details_deletes(original, dht, visible[a])) :
          ret' = Returned("get_all_deletes", "Attachment", a, original, 0,
                          get_all_deletes(original, deletes, dht, visible[a]), deletes, <<>>)
    /\ UNCHANGED <<dht, visible, valVars, sigVars>>

Call_get_all_attachments(a) ==
    /\ \E links \in Orders(get_links(path_entry_hash("all_attachments"), "AllAttachments",
                                      dht, visible[a])) :
          ret' = Returned("get_all_attachments", "Attachment", a, 0, 0,
                          get_all_attachments(links, dht, visible[a]), links, <<>>)
    /\ UNCHANGED <<dht, visible, valVars, sigVars>>

Call_get_oldest_delete(a, original) ==
    /\ \E deletes \in Orders(details_deletes(original, dht, visible[a])) :
          ret' = Returned("get_oldest_delete", "Attachment", a, original, 0,
                          get_oldest_delete(original, deletes, dht, visible[a]), deletes, <<>>)
    /\ UNCHANGED <<dht, visible, valVars, sigVars>>

\* ------------------------------------------------------------------ resolver on drawn stores
MaxDeletes == 2
Kinds == {"Attachment", "RoomInfo"}
Reader == 1
AuthorOf(j) == ((j - 1) % NAgents) + 1

\* One Updates-link of the original: its timestamp and whether its target
\* is a revision the reader holds ("ok"), a revision it does not hold
\* ("unresolved"), or not an action hash ("malformed").
LinkDraws == [ts : Times, st : {"ok", "unresolved", "malformed"}]
RevisionDraws == UNION {[1..k -> LinkDraws] : k \in 0..MaxLinks}
DeleteDraws == UNION {[1..d -> Times] : d \in 0..MaxDeletes}

\* The store of an Attachment created by agent 1 (action 1), its revisions
\* (actions 2..k+1), their Updates-links (k+2..2k+1) and the Deletes of the
\* original (2k+2..).  Authors differ, so the timestamps are unrelated.
DrawnStore(ls, ds) ==
    LET k == Len(ls) IN
    [i \in 1..(1 + 2 * k + Len(ds)) |->
        IF i = 1 THEN CreateAct(1, 1, "Attachment")
        ELSE IF i <= 1 + k THEN UpdateAct(AuthorOf(i - 1), ls[i - 1].ts, "Attachment", 1)
        ELSE IF i <= 1 + 2 * k
        THEN CreateLinkAct(AuthorOf(i - 1 - k), ls[i - 1 - k].ts, "room", "AttachmentUpdates",
                           ActionHash(1),
                           IF ls[i - 1 - k].st = "malformed"
                           THEN path_entry_hash("all_attachments")
                           ELSE ActionHash(i - k),
                           "utf8")
        ELSE DeleteAct(AuthorOf(i), ds[i - 1 - 2 * k], 1)]

DrawnView(ls, ds, original_held) ==
    LET k == Len(ls) IN
    (IF original_held THEN {1} ELSE {})
        \cup {1 + j : j \in {x \in 1..k : ls[x].st # "unresolved"}}
        \cup ((k + 2)..(1 + 2 * k + Len(ds)))

InitResolver ==
    /\ \E ls \in RevisionDraws, ds \in DeleteDraws, original_held \in BOOLEAN :
          /\ Len(ls) <= 1 \/ Len(ds) = 0
          /\ dht = DrawnStore(ls, ds)
          /\ visible = [a \in Agents |-> IF a = Reader THEN DrawnView(ls, ds, original_held) ELSE {}]
    /\ ret = NoRet
    /\ op = Op("room", "StoreEntry", "CreateEntry", "Attachment", CreateAct(1, 1, "Attachment"), NoAct)
    /\ view = [a \in Agents |-> {}]
    /\ verdict = [a \in Agents |-> NotRun]
    /\ validated_view = [a \in Agents |-> {}]
    /\ InitSignals

\* The hashes the reader asks about: the original, and one no action has.
AskedHashes == {1, Len(dht) + 1}

\* The caller takes the returned value; the next call starts from there.
TakeResult ==
    /\ ret # NoRet
    /\ ret' = NoRet
    /\ UNCHANGED <<dht, visible, valVars, sigVars>>

ReadResolver ==
    /\ ret = NoRet
    /\ \E original \in AskedHashes :
          \/ \E kind \in Kinds : Call_get_latest(Reader, kind, original)
          \/ \E kind \in Kinds : Call_get_original(Reader, kind, original)
          \/ \E kind \in Kinds : Call_get_all_revisions(Reader, kind, original)
          \/ Call_get_all_deletes(Reader, original)
          \/ Call_get_oldest_delete(Reader, original)

NextResolver == ReadResolver \/ TakeResult

SpecResolver == InitResolver /\ [][NextResolver]_vars

\* ------------------------------------------------------------------ claims on the resolver
\* What the caller's cell holds, stated on the store itself.
Holds(a, h) == h \in visible[a] /\ h \in DOMAIN dht
DeletesOf(a, h) == {d \in DOMAIN dht : Holds(a, d) /\ dht[d].type = "Delete" /\ dht[d].original = h}
Live(a, h) == Holds(a, h) /\ DeletesOf(a, h) = {}
LinkTs(l) == dht[l].timestamp
RetLinks == {ret.links[j] : j \in 1..Len(ret.links)}

\* C4: get_latest on an original with zero Updates-links returns exactly the
\* record at the original hash, and Ok(None), never an error, when the
\* original does not resolve.
C4_LatestOfUnrevisedOriginal ==
    (ret.fn = "get_latest" /\ ret.links = <<>>) =>
        /\ ret.ok
        /\ Live(ret.caller, ret.original) => (ret.some /\ ret.val = <<ret.original>>)
        /\ ~Live(ret.caller, ret.original) => (~ret.some /\ ret.val = <<>>)

C4_Witness ==
    /\ ret.fn = "get_latest" /\ ret.kind = "Attachment" /\ ret.links = <<>>
    /\ ret.original = 1 /\ ret.some /\ ret.val = <<1>>
    /\ Len(dht) = 1

C4_WitnessUnresolved ==
    /\ ret.fn = "get_latest" /\ ret.links = <<>> /\ ret.original = 1
    /\ ~Holds(ret.caller, 1) /\ ret.ok /\ ~ret.some

\* C5: with one or more Updates-links, get_latest resolves the target of a
\* link whose timestamp is at least that of every other Updates-link of the
\* original, in whatever order the links were returned.
C5_LatestFollowsMaxTimestamp ==
    (ret.fn = "get_latest" /\ ret.links # <<>>) =>
        \E l \in RetLinks :
            /\ \A m \in RetLinks : LinkTs(l) >= LinkTs(m)
            /\ into_action_hash_ok(dht[l].target) =>
                  /\ ret.ok
                  /\ Live(ret.caller, dht[l].target.id) => ret.val = <<dht[l].target.id>>
                  /\ ~Live(ret.caller, dht[l].target.id) => ~ret.some
            /\ ~into_action_hash_ok(dht[l].target) => ~ret.ok

\* Links at timestamps 1, 3, 2 to the revisions 2, 3, 4: the second is returned.
C5_Witness ==
    /\ ret.fn = "get_latest" /\ Len(ret.links) = 3
    /\ LinkTs(ret.links[1]) = 1 /\ LinkTs(ret.links[2]) = 3 /\ LinkTs(ret.links[3]) = 2
    /\ ret.some /\ ret.val = <<dht[ret.links[2]].target.id>>

\* The targets of the returned links that the caller's cell resolves.
ResolvingTargets ==
    {dht[l].target.id : l \in {m \in RetLinks : into_action_hash_ok(dht[m].target)
                                               /\ Live(ret.caller, dht[m].target.id)}}

\* The statement as the specification words it: the original, then one
\* record for each Updates-link target.
C6_OneRecordPerLinkTarget ==
    (ret.fn = "get_all_revisions" /\ Holds(ret.caller, ret.original)) =>
        /\ ret.ok
        /\ Len(ret.val) = 1 + Len(ret.links)
        /\ ret.val[1] = ret.original

\* C6: get_all_revisions returns the empty sequence, not an error, when the
\* original does not resolve; otherwise, when every link target is an action
\* hash, it returns the original first, followed by one record for each
\* Updates-link target that resolves; a link target that is not an action
\* hash makes it an error.
C6_OneRecordPerResolvingTarget ==
    (ret.fn = "get_all_revisions") =>
        /\ ~Holds(ret.caller, ret.original) => (ret.ok /\ ret.val = <<>>)
        /\ (Holds(ret.caller, ret.original)
              /\ \E l \in RetLinks : ~into_action_hash_ok(dht[l].target)) => ~ret.ok
        /\ (Holds(ret.caller, ret.original)
              /\ \A l \in RetLinks : into_action_hash_ok(dht[l].target)) =>
                 /\ ret.ok
                 /\ Len(ret.val) = 1 + Cardinality(ResolvingTargets)
                 /\ ret.val[1] = ret.original
                 /\ {ret.val[i] : i \in 2..Len(ret.val)} = ResolvingTargets

\* An original with two update targets yields three records.
C6_Witness ==
    /\ ret.fn = "get_all_revisions" /\ Len(ret.links) = 2
    /\ Len(ret.val) = 3 /\ ret.val[1] = ret.original
    /\ {ret.val[2], ret.val[3]} = {dht[ret.links[1]].target.id, dht[ret.links[2]].target.id}

\* C7: get_oldest_delete returns a Delete whose timestamp is at most that of
\* every Delete recorded against the original; None when the original does
\* not resolve, None when it resolves and has no deletes.
C7_OldestDelete ==
    (ret.fn = "get_oldest_delete") =>
        /\ ret.ok
        /\ ~Holds(ret.caller, ret.original) => ~ret.some
        /\ (Holds(ret.caller, ret.original) /\ DeletesOf(ret.caller, ret.original) = {}) => ~ret.some
        /\ (Holds(ret.caller, ret.original) /\ DeletesOf(ret.caller, ret.original) # {}) =>
              /\ ret.some /\ Len(ret.val) = 1
              /\ ret.val[1] \in DeletesOf(ret.caller, ret.original)
              /\ \A d \in DeletesOf(ret.caller, ret.original) :
                    dht[ret.val[1]].timestamp <= dht[d].timestamp

\* Two deletes, the later one listed first: the earlier one is returned.
C7_Witness ==
    /\ ret.fn = "get_oldest_delete" /\ Len(ret.links) = 2
    /\ dht[ret.links[1]].timestamp > dht[ret.links[2]].timestamp
    /\ ret.some /\ ret.val = <<ret.links[2]>>

\* C22 as stated: one Updates-link whose target is not an action hash does
\* not abort get_all_revisions: the call returns Ok with the original and
\* the records of the remaining, well-formed links.
C22_MalformedItemNeverAbortsBatch ==
    (ret.fn = "get_all_revisions" /\ Holds(ret.caller, ret.original)) =>
        /\ ret.ok
        /\ {ret.val[i] : i \in 2..Len(ret.val)} = ResolvingTargets

\* C25: get_original returns None when the original does not resolve and
\* the original's record when it does, deleted or not, and does not fail;
\* get_all_deletes returns None when the original does not resolve and
\* otherwise every Delete recorded against it, each once, possibly none.
C25_OriginalAndDeletes ==
    /\ (ret.fn = "get_original") =>
          /\ ret.ok
          /\ ~Holds(ret.caller, ret.original) => (~ret.some /\ ret.val = <<>>)
          /\ Holds(ret.caller, ret.original) => (ret.some /\ ret.val = <<ret.original>>)
    /\ (ret.fn = "get_all_deletes") =>
          /\ ret.ok
          /\ ~Holds(ret.caller, ret.original) => ~ret.some
          /\ Holds(ret.caller, ret.original) =>
                /\ ret.some
                /\ {ret.val[i] : i \in 1..Len(ret.val)} = DeletesOf(ret.caller, ret.original)
                /\ Len(ret.val) = Cardinality(DeletesOf(ret.caller, ret.original))

\* The original of a deleted attachment is still returned.
C25_Witness ==
    /\ ret.fn = "get_original" /\ ret.kind = "Attachment"
    /\ Cardinality(DeletesOf(ret.caller, ret.original)) = 2
    /\ ret.some /\ ret.val = <<ret.original>>

\* C27 as stated: every store read a resolver issues carries the read
\* strategy its caller asked for, whichever that is.
C27_ReadsFollowCallerStrategy ==
    \A strategy \in GetStrategies :
        (ret.fn \in {"get_latest", "get_original", "get_all_revisions", "get_all_deletes"}) =>
            \A r \in host_reads(ret.fn, ret.kind, strategy) : r[2] = strategy

\* ------------------------------------------------------------------ write calls and gossip
\* The DHT ops the conductor derives from an action of the room DNA, W
\* being the store the action is part of.
OpsOf(act, W) ==
    IF act.type = "CreateLink" /\ act.zome = "unzoom"
    THEN {Op("unzoom", "RegisterAgentActivity", "Other", "NA", act, NoAct),
          Op("unzoom", "StoreRecord", "CreateLink", "NA", act, NoAct),
          Op("unzoom", "RegisterCreateLink", "CreateLink", "NA", act, NoAct)}
    ELSE
    {Op("room", "RegisterAgentActivity", "Other", "NA", act, NoAct)} \cup
    (CASE act.type = "Create" ->
             {Op("room", f, "CreateEntry", act.entry, act, NoAct) : f \in {"StoreRecord", "StoreEntry"}}
       [] act.type = "Update" ->
             {Op("room", "StoreRecord", "UpdateEntry", act.entry, act, NoAct),
              Op("room", "StoreEntry", "UpdateEntry", act.entry, act, NoAct),
              Op("room", "RegisterUpdate", "Entry", act.entry, act, NoAct)}
       [] act.type = "CreateLink" ->
             {Op("room", "StoreRecord", "CreateLink", "NA", act, NoAct),
              Op("room", "RegisterCreateLink", "CreateLink", "NA", act, NoAct)}
       [] act.type = "Delete" ->
             {Op("room", "StoreRecord", "DeleteEntry", "NA", act, NoAct),
              Op("room", "RegisterDelete", "Entry", "NA", act, NoAct)}
       [] act.type = "DeleteLink" ->
             {Op("room", "StoreRecord", "DeleteLink", "NA", act, NoAct),
              Op("room", "RegisterDeleteLink", "DeleteLink", "NA", act, W[act.original])}
       [] OTHER -> {})

\* Every op of the action W[i] is Valid for a cell whose view is vw.
AllValid(i, W, vw) == \A o \in OpsOf(W[i], W) : validate_op(o, W, vw) = Valid

\* The clock of a cell: the actions of one call carry the call's clock
\* reading, later than every action the author wrote before.  The clocks
\* of different cells are unrelated.
ClockOk(a, t) == \A i \in DOMAIN dht : dht[i].author = a => dht[i].timestamp < t

\* The end of a write call: the actions it issued are validated inline
\* against the caller's own view and committed together, or the call fails
\* and none of them is written.
\* The call returns res when it commits.
CommitReturning(fn, kind, a, original, previous, scratch, res) ==
    LET n == Len(dht)
        W == dht \o scratch
        vw == visible[a] \cup ((n + 1)..(n + Len(scratch)))
    IN  IF \A i \in (n + 1)..(n + Len(scratch)) : AllValid(i, W, vw)
        THEN /\ dht' = W
             /\ visible' = [visible EXCEPT ![a] = vw]
             /\ ret' = Returned(fn, kind, a, original, previous, res, <<>>, scratch)
        ELSE /\ ret' = Returned(fn, kind, a, original, previous,
                                ErrGuest("validation failed"), <<>>, scratch)
             /\ UNCHANGED <<dht, visible>>

\* A call that returns the record or the hash of the first action it issued.
Commit(fn, kind, a, original, previous, scratch) ==
    CommitReturning(fn, kind, a, original, previous, scratch, OkOpt(<<Len(dht) + 1>>))

\* A create_attachment that leaves the new record out of the registry.
create_attachment_scratch_unlisted(a, t, n) ==
    << CreateAct(a, t, "Attachment") >>

\* create_entry(Attachment) then create_link(all_attachments anchor, new hash)
create_attachment_scratch(a, t, n) ==
    << CreateAct(a, t, "Attachment"),
       CreateLinkAct(a, t, "room", "AllAttachments", path_entry_hash("all_attachments"),
                     ActionHash(n + 1), "utf8") >>

create_attachment(a, t) ==
    /\ ClockOk(a, t)
    /\ Len(dht) + 2 <= 2 * MaxCalls
    /\ Commit("create_attachment", "Attachment", a, 0, 0, create_attachment_scratch(a, t, Len(dht)))
    /\ UNCHANGED <<valVars, sigVars>>

\* create_entry(RoomInfo), then a link from the all_agents anchor and one
\* from the all_descendent_rooms anchor, both to the new action hash.
create_room_info_scratch(a, t, n) ==
    << CreateAct(a, t, "RoomInfo"),
       CreateLinkAct(a, t, "room", "AllAgents", path_entry_hash("all_agents"),
                     ActionHash(n + 1), "utf8"),
       CreateLinkAct(a, t, "room", "AllDescendentRooms", path_entry_hash("all_descendent_rooms"),
                     ActionHash(n + 1), "utf8") >>

create_room_info(a, t) ==
    /\ ClockOk(a, t)
    /\ Len(dht) + 3 <= 2 * MaxCalls
    /\ Commit("create_room_info", "RoomInfo", a, 0, 0, create_room_info_scratch(a, t, Len(dht)))
    /\ UNCHANGED <<valVars, sigVars>>

RECURSIVE delete_links_of_caller(_, _, _, _)
RECURSIVE delete_links(_, _, _, _)
\* A loop that deletes only the links the caller created itself.
delete_links_of_caller(a, t, original, links) ==
    IF links = <<>> THEN <<>>
    ELSE (IF /\ into_action_hash_ok(dht[Head(links)].target)
             /\ into_action_hash(dht[Head(links)].target) = original
             /\ dht[Head(links)].author = a
          THEN << DeleteLinkAct(a, t, Head(links)) >>
          ELSE <<>>) \o delete_links_of_caller(a, t, original, Tail(links))

\* The delete_link calls of the loop over links, in the Vec's order.
delete_links(a, t, original, links) ==
    IF links = <<>> THEN <<>>
    ELSE (IF /\ into_action_hash_ok(dht[Head(links)].target)
             /\ into_action_hash(dht[Head(links)].target) = original
          THEN << DeleteLinkAct(a, t, Head(links)) >>
          ELSE <<>>) \o delete_links(a, t, original, Tail(links))

\* A delete_attachment that leaves the registry alone.
delete_attachment_scratch_entry_only(a, t, original, links) ==
    << DeleteAct(a, t, original) >>

\* The delete_link calls, then delete_entry(original).
delete_attachment_scratch(a, t, original, links) ==
    delete_links(a, t, original, links) \o << DeleteAct(a, t, original) >>

\* A delete_attachment for which deleting what the cell cannot find is a
\* success.
delete_attachment_idempotent(a, t, original) ==
    /\ ClockOk(a, t)
    /\ IF ~get_details_some(original, dht, visible[a])
       THEN /\ ret' = Returned("delete_attachment", "Attachment", a, original, 0,
                               OkOpt(<<>>), <<>>, <<>>)
            /\ UNCHANGED <<dht, visible>>
       ELSE \E links \in Orders(get_links(path_entry_hash("all_attachments"), "AllAttachments",
                                          dht, visible[a])) :
              /\ Len(dht) + Len(delete_attachment_scratch(a, t, original, links)) <= 2 * MaxCalls
              /\ CommitReturning("delete_attachment", "Attachment", a, original, 0,
                                 delete_attachment_scratch(a, t, original, links),
                                 OkOpt(<<Len(dht) + Len(delete_attachment_scratch(a, t, original, links))>>))
    /\ UNCHANGED <<valVars, sigVars>>

\* delete_attachment: an error, and nothing written, when get_details
\* finds nothing; otherwise the links of the anchor the caller holds are
\* walked and the actions issued are committed together.  The call returns
\* the hash of the Delete, the last action issued.
delete_attachment(a, t, original) ==
    /\ ClockOk(a, t)
    /\ IF ~get_details_some(original, dht, visible[a])
       THEN /\ ret' = Returned("delete_attachment", "Attachment", a, original, 0,
                               ErrGuest("{pascal_entry_def_name} not found"), <<>>, <<>>)
            /\ UNCHANGED <<dht, visible>>
       ELSE \E links \in Orders(get_links(path_entry_hash("all_attachments"), "AllAttachments",
                                          dht, visible[a])) :
              LET scratch == delete_attachment_scratch(a, t, original, links)
                  n == Len(dht)
                  W == dht \o scratch
                  vw == visible[a] \cup ((n + 1)..(n + Len(scratch)))
              IN  /\ n + Len(scratch) <= 2 * MaxCalls
                  /\ IF \A i \in (n + 1)..(n + Len(scratch)) : AllValid(i, W, vw)
                     THEN /\ dht' = W
                          /\ visible' = [visible EXCEPT ![a] = vw]
                          /\ ret' = Returned("delete_attachment", "Attachment", a, original, 0,
                                             OkOpt(<<n + Len(scratch)>>), links, scratch)
                     ELSE /\ ret' = Returned("delete_attachment", "Attachment", a, original, 0,
                                             ErrGuest("validation failed"), links, scratch)
                          /\ UNCHANGED <<dht, visible>>
    /\ UNCHANGED <<valVars, sigVars>>

\* An update that puts its Updates-link on the previous revision.
update_scratch_from_previous(kind, a, t, original, previous, n) ==
    << UpdateAct(a, t, kind, previous),
       CreateLinkAct(a, t, "room", UpdatesLinkType(kind), ActionHash(previous),
                     ActionHash(n + 1), "utf8") >>

\* update_entry(previous, updated) then create_link(original, new hash, Updates)
update_scratch(kind, a, t, original, previous, n) ==
    << UpdateAct(a, t, kind, previous),
       CreateLinkAct(a, t, "room", UpdatesLinkType(kind), ActionHash(original),
                     ActionHash(n + 1), "utf8") >>

\* An update with an optimistic-concurrency check: it fails unless previous
\* is what get_latest(original) resolves to in the caller's view.
update_if_latest(kind, a, t, original, previous) ==
    /\ ClockOk(a, t)
    /\ Len(dht) + 2 <= 2 * MaxCalls
    /\ IF \/ ~(previous \in visible[a] /\ EntryCreationAction_try_from_ok(dht[previous]))
          \/ \E links \in Orders(get_links(ActionHash(original), UpdatesLinkType(kind),
                                            dht, visible[a])) :
                get_latest(original, links, dht, visible[a]).val # <<previous>>
       THEN /\ ret' = Returned("update", kind, a, original, previous,
                               ErrGuest("stale revision"), <<>>, <<>>)
            /\ UNCHANGED <<dht, visible>>
       ELSE Commit("update", kind, a, original, previous,
                   update_scratch(kind, a, t, original, previous, Len(dht)))
    /\ UNCHANGED <<valVars, sigVars>>

\* An update that gives way when another author has already revised the original.
update_first_writer_wins(kind, a, t, original, previous) ==
    /\ ClockOk(a, t)
    /\ Len(dht) + 2 <= 2 * MaxCalls
    /\ IF \/ ~(previous \in visible[a] /\ EntryCreationAction_try_from_ok(dht[previous]))
          \/ \E l \in DOMAIN dht : /\ dht[l].type = "CreateLink"
                                   /\ dht[l].link_type = UpdatesLinkType(kind)
                                   /\ dht[l].base = ActionHash(original)
                                   /\ dht[l].author # a
       THEN /\ ret' = Returned("update", kind, a, original, previous,
                               ErrGuest("update_entry failed"), <<>>, <<>>)
            /\ UNCHANGED <<dht, visible>>
       ELSE Commit("update", kind, a, original, previous,
                   update_scratch(kind, a, t, original, previous, Len(dht)))
    /\ UNCHANGED <<valVars, sigVars>>

\* update_attachment / update_room_info.  update_entry fails, and nothing
\* is written, when the host cannot resolve previous to an entry creation.
update(kind, a, t, original, previous) ==
    /\ ClockOk(a, t)
    /\ Len(dht) + 2 <= 2 * MaxCalls
    /\ IF ~(previous \in visible[a] /\ EntryCreationAction_try_from_ok(dht[previous]))
       THEN /\ ret' = Returned("update", kind, a, original, previous,
                               ErrGuest("update_entry failed"), <<>>, <<>>)
            /\ UNCHANGED <<dht, visible>>
       ELSE Commit("update", kind, a, original, previous,
                   update_scratch(kind, a, t, original, previous, Len(dht)))
    /\ UNCHANGED <<valVars, sigVars>>

\* Gossip: the cell of a receives the action i and integrates it once its
\* ops validate against what the cell holds.
Deliver(a, i) ==
    /\ i \notin visible[a]
    /\ AllValid(i, dht, visible[a] \cup {i})
    /\ visible' = [visible EXCEPT ![a] = visible[a] \cup {i}]
    /\ UNCHANGED <<dht, ret, valVars, sigVars>>

\* The hashes callers pass as original: the Creates of the entries.
Originals == {i \in DOMAIN dht : dht[i].type = "Create"}
Revisions == {i \in DOMAIN dht : dht[i].type \in {"Create", "Update"}}

Init ==
    /\ dht = <<>>
    /\ visible = [a \in Agents |-> {}]
    /\ ret = NoRet
    /\ op = Op("room", "StoreEntry", "CreateEntry", "Attachment", CreateAct(1, 1, "Attachment"), NoAct)
    /\ view = [a \in Agents |-> {}]
    /\ verdict = [a \in Agents |-> NotRun]
    /\ validated_view = [a \in Agents |-> {}]
    /\ InitSignals

Write ==
    /\ ret = NoRet
    /\ \E a \in Agents, t \in Times :
          \/ create_attachment(a, t)
          \/ create_room_info(a, t)
          \/ \E kind \in Kinds, original \in Originals, previous \in Revisions :
                update(kind, a, t, original, previous)
          \/ \E original \in Originals : delete_attachment(a, t, original)

Read ==
    /\ ret = NoRet
    /\ \E a \in Agents, original \in Originals :
          \/ Call_get_latest(a, "Attachment", original)
          \/ Call_get_all_revisions(a, "Attachment", original)
          \/ Call_get_all_deletes(a, original)
          \/ Call_get_all_attachments(a)

Gossip ==
    /\ ret = NoRet
    /\ \E a \in Agents, i \in DOMAIN dht : Deliver(a, i)

Next == Write \/ Read \/ Gossip \/ TakeResult

Spec == Init /\ [][Next]_vars

\* ------------------------------------------------------------------ claims on update
IsUpdatesLink(l) == dht[l].type = "CreateLink" /\ dht[l].link_type \in {"AttachmentUpdates", "RoomInfoUpdates"}
UpdatesLinksOn(o) == {l \in DOMAIN dht : IsUpdatesLink(l) /\ dht[l].base = ActionHash(o)}

\* C9: update(original, previous, payload) writes an Update that supersedes
\* previous and exactly one Updates-link, whose base is original, never
\* previous, and whose target is the new action; in every store reached by
\* updates each Updates-link has an original as its base and each revision
\* is the target of exactly one of them.
C9_UpdateFansOutFromOriginal ==
    /\ (ret.fn = "update" /\ ret.issued # <<>>) =>
          /\ Len(ret.issued) = 2
          /\ ret.issued[1].type = "Update" /\ ret.issued[1].original = ret.previous
          /\ ret.issued[2].type = "CreateLink"
          /\ ret.issued[2].link_type = UpdatesLinkType(ret.kind)
          /\ ret.issued[2].base = ActionHash(ret.original)
          /\ ret.original # ret.previous => ret.issued[2].base # ActionHash(ret.previous)
          /\ ret.ok => /\ ret.issued[2].target = ActionHash(ret.val[1])
                       /\ dht[ret.val[1]] = ret.issued[1]
                       /\ dht[ret.val[1] + 1] = ret.issued[2]
    /\ \A l \in DOMAIN dht : IsUpdatesLink(l) =>
          /\ dht[l].base.kind = "Action" /\ dht[l].base.id \in Originals
          /\ dht[l].target.kind = "Action" /\ dht[l].target.id \in DOMAIN dht
          /\ dht[dht[l].target.id].type = "Update"
    /\ \A u \in DOMAIN dht : dht[u].type = "Update" =>
          Cardinality({l \in DOMAIN dht : IsUpdatesLink(l) /\ dht[l].target = ActionHash(u)}) = 1

\* An update of a revision made by the other author: previous is not original.
C9_Witness ==
    /\ ret.fn = "update" /\ ret.ok /\ ret.original # ret.previous
    /\ dht[ret.previous].type = "Update" /\ dht[ret.previous].author # ret.caller
    /\ dht[ret.val[1] + 1].base = ActionHash(ret.original)

\* C10: two updates of one original by different authors both succeed in
\* every interleaving; a reader that holds both sees both revisions in
\* get_all_revisions, and get_latest returns the revision whose Updates-link
\* has the larger timestamp, whichever update ran or arrived first.
C10_ConcurrentUpdatesBothLand ==
    /\ (ret.fn = "update" /\ ret.kind = "Attachment" /\ Holds(ret.caller, ret.previous)) => ret.ok
    /\ (ret.fn = "get_all_revisions" /\ Holds(ret.caller, ret.original)) =>
          \A l \in UpdatesLinksOn(ret.original) :
              (Holds(ret.caller, l) /\ Holds(ret.caller, dht[l].target.id)) =>
                  \E i \in 1..Len(ret.val) : ret.val[i] = dht[l].target.id
    /\ (ret.fn = "get_latest") =>
          \A l \in UpdatesLinksOn(ret.original) :
              (/\ Holds(ret.caller, l) /\ Holds(ret.caller, dht[l].target.id)
               /\ \A m \in UpdatesLinksOn(ret.original) \ {l} :
                     Holds(ret.caller, m) => LinkTs(m) < LinkTs(l))
                  => ret.val = <<dht[l].target.id>>

\* Two authors revise the original without having seen each other's update;
\* the update written first carries the larger timestamp and is the latest
\* for a reader that holds both.
C10_Witness ==
    /\ ret.fn = "get_latest"
    /\ \E l1, l2 \in UpdatesLinksOn(ret.original) :
          /\ l1 < l2 /\ dht[l1].author # dht[l2].author
          /\ LinkTs(l1) > LinkTs(l2)
          /\ dht[dht[l1].target.id].original = ret.original
          /\ dht[dht[l2].target.id].original = ret.original
          /\ ~Holds(dht[l2].author, dht[l1].target.id)
          /\ Holds(ret.caller, l1) /\ Holds(ret.caller, l2)
          /\ Holds(ret.caller, dht[l2].target.id)
          /\ ret.val = <<dht[l1].target.id>>

\* ------------------------------------------------------------------ claims on create and delete
all_attachments == path_entry_hash("all_attachments")

\* The live AllAttachments links of the anchor the cell of a holds.
LiveListing(a) == get_links(all_attachments, "AllAttachments", dht, visible[a])

\* The Deletes of the attachment o that a wrote.
DeletesBy(a, o) ==
    {d \in DOMAIN dht : dht[d].type = "Delete" /\ dht[d].original = o /\ dht[d].author = a}

\* C11: once delete_attachment(original) has succeeded, no live
\* AllAttachments link of the anchor that the deleting peer holds targets
\* the original, and the Delete is written; from then on get_all_attachments
\* by that peer never lists the original, and get_all_deletes(original) by
\* that peer returns the Delete.
C11_DeletedLeavesListing ==
    /\ (ret.fn = "delete_attachment" /\ ret.ok) =>
          /\ \A l \in LiveListing(ret.caller) : dht[l].target # ActionHash(ret.original)
          /\ ret.val[1] \in DeletesBy(ret.caller, ret.original)
          /\ Holds(ret.caller, ret.val[1])
    /\ (ret.fn = "get_all_attachments") =>
          \A o \in Originals : DeletesBy(ret.caller, o) # {} =>
              \A i \in 1..Len(ret.val) : ret.val[i] # o
    /\ (ret.fn = "get_all_deletes") =>
          \A d \in DeletesBy(ret.caller, ret.original) :
              /\ ret.ok /\ ret.some
              /\ \E i \in 1..Len(ret.val) : ret.val[i] = d

\* A peer that deleted another author's attachment, link included, lists
\* the attachments: another one is listed, the deleted one is not.
C11_Witness ==
    /\ ret.fn = "get_all_attachments" /\ ret.val # <<>>
    /\ \E o \in Originals :
          /\ dht[o].author # ret.caller
          /\ DeletesBy(ret.caller, o) # {}
          /\ \E d \in DOMAIN dht :
                /\ dht[d].type = "DeleteLink" /\ dht[d].author = ret.caller
                /\ dht[dht[d].original].target = ActionHash(o)

\* C12: when create_attachment or create_room_info returns Ok, the record
\* returned is the Create the call wrote, at the new action hash, held by
\* the caller, and the call wrote a link from its registry anchor to that
\* hash which the caller holds; a listing by a peer that holds the link and
\* the record, and no Delete of it, contains the record.
C12_CreateReturnsListedRecord ==
    /\ (ret.fn \in {"create_attachment", "create_room_info"} /\ ret.ok) =>
          /\ ret.some /\ Len(ret.val) = 1
          /\ dht[ret.val[1]] = ret.issued[1]
          /\ dht[ret.val[1]].type = "Create" /\ dht[ret.val[1]].entry = ret.kind
          /\ Holds(ret.caller, ret.val[1])
          /\ \E l \in DOMAIN dht :
                /\ Holds(ret.caller, l)
                /\ dht[l].type = "CreateLink" /\ dht[l].author = ret.caller
                /\ dht[l].base = (IF ret.fn = "create_attachment" THEN all_attachments
                                  ELSE path_entry_hash("all_descendent_rooms"))
                /\ dht[l].target = ActionHash(ret.val[1])
    /\ (ret.fn = "create_attachment" /\ ret.ok) =>
          \E l \in LiveListing(ret.caller) : dht[l].target = ActionHash(ret.val[1])
    /\ (ret.fn = "get_all_attachments") =>
          \A l \in LiveListing(ret.caller) :
              (/\ dht[l].target.kind = "Action"
               /\ Holds(ret.caller, dht[l].target.id)
               /\ DeletesOf(ret.caller, dht[l].target.id) = {})
                  => \E i \in 1..Len(ret.val) : ret.val[i] = dht[l].target.id

\* The second attachment of an author has just been created.
C12_Witness ==
    /\ ret.fn = "create_attachment" /\ ret.ok
    /\ ret.val[1] > 1
    /\ dht[ret.val[1]].type = "Create" /\ dht[ret.val[1] + 1].target = ActionHash(ret.val[1])

\* The Updates-links of the original o that the cell of a holds live.
HeldUpdatesLinks(a, o) == get_links(ActionHash(o), "AttachmentUpdates", dht, visible[a])

\* C24: update of an attachment succeeds for every previous the caller
\* holds, whether or not previous is the latest revision of original or a
\* revision of original at all; right after it get_latest(original) in the
\* caller's view returns the new revision whenever the new Updates-link's
\* timestamp is larger than that of every other Updates-link held.
C24_StaleUpdateSucceeds ==
    (ret.fn = "update" /\ ret.kind = "Attachment" /\ Holds(ret.caller, ret.previous)) =>
        /\ ret.ok
        /\ dht[ret.val[1]].original = ret.previous
        /\ (\A m \in HeldUpdatesLinks(ret.caller, ret.original) \ {ret.val[1] + 1} :
                LinkTs(m) < LinkTs(ret.val[1] + 1))
             => \A links \in Orders(HeldUpdatesLinks(ret.caller, ret.original)) :
                    get_latest(ret.original, links, dht, visible[ret.caller]) = OkOpt(<<ret.val[1]>>)

\* The original is revised again from the original itself although the
\* caller already holds a later revision of it.
C24_Witness ==
    /\ ret.fn = "update" /\ ret.kind = "Attachment" /\ ret.ok
    /\ ret.previous = ret.original
    /\ \E m \in HeldUpdatesLinks(ret.caller, ret.original) :
          /\ m # ret.val[1] + 1
          /\ Live(ret.caller, dht[m].target.id)
          /\ LinkTs(m) < LinkTs(ret.val[1] + 1)
    /\ \A links \in Orders(HeldUpdatesLinks(ret.caller, ret.original)) :
          get_latest(ret.original, links, dht, visible[ret.caller]).val = <<ret.val[1]>>

\* ------------------------------------------------------------------ registries
\* get(entry_hash, options): a live record of the cell that stores the entry.
\* The actions a roster run stores at most.
MaxRoster == 4

get_entry(eh, W, vw) ==
    LET rs == {i \in vw \cap DOMAIN W :
                  /\ W[i].type \in {"Create", "Update"} /\ hash_entry(i) = eh
                  /\ ~\E d \in vw \cap DOMAIN W : W[d].type = "Delete" /\ W[d].original = i}
    IN  IF rs = {} THEN <<>> ELSE <<CHOOSE i \in rs : \A j \in rs : i <= j>>

\* filter_map(|link| AgentPubKey::try_from(link.target).ok())
RECURSIVE agent_keys(_, _)
agent_keys(links, W) ==
    IF links = <<>> THEN <<>>
    ELSE (IF AgentPubKey_try_from_ok(W[Head(links)].target)
          THEN <<AgentPubKey_try_from(W[Head(links)].target)>>
          ELSE <<>>) \o agent_keys(Tail(links), W)

\* get_all_agents, links being the Vec get_links returned for the anchor.
get_all_agents(links, W) == OkVec(agent_keys(links, W))

Call_get_all_agents(a) ==
    /\ \E links \in Orders(get_links(path_entry_hash(ALL_AGENTS), "AllAgents", dht, visible[a])) :
          ret' = Returned("get_all_agents", "room", a, 0, 0,
                          get_all_agents(links, dht), links, <<>>)
    /\ UNCHANGED <<dht, visible, valVars, sigVars>>

\* An add_agent_to_anchor that registers the first agent, whoever calls.
add_agent_to_anchor_scratch_first_agent(a, t) ==
    << CreateLinkAct(a, t, "room", "AllAgents", path_entry_hash(ALL_AGENTS),
                     AgentAsLinkable(1), "utf8") >>

\* An add_agent_to_anchor on the anchor create_room_info names.
add_agent_to_anchor_scratch_lowercase(a, t) ==
    << CreateLinkAct(a, t, "room", "AllAgents", path_entry_hash("all_agents"),
                     AgentAsLinkable(a), "utf8") >>

\* create_link(anchor, agent_info().agent_initial_pubkey, AllAgents, ())
add_agent_to_anchor_scratch(a, t) ==
    << CreateLinkAct(a, t, "room", "AllAgents", path_entry_hash(ALL_AGENTS),
                     AgentAsLinkable(a), "utf8") >>

add_agent_to_anchor(a, t) ==
    /\ ClockOk(a, t)
    /\ Len(dht) + 1 <= MaxRoster
    /\ Commit("add_agent_to_anchor", "room", a, 0, 0, add_agent_to_anchor_scratch(a, t))
    /\ UNCHANGED <<valVars, sigVars>>

\* hash_entry(input), create_entry(DescendentRoom), then a link from the
\* anchor to the entry hash; the call returns the link's hash.
create_descendent_room_scratch(a, t, n) ==
    << CreateAct(a, t, "DescendentRoom"),
       CreateLinkAct(a, t, "room", "AllDescendentRooms", path_entry_hash(ALL_DESCENDENT_ROOMS),
                     hash_entry(n + 1), "utf8") >>

create_descendent_room(a, t) ==
    /\ ClockOk(a, t)
    /\ Len(dht) + 2 <= MaxRoster
    /\ CommitReturning("create_descendent_room", "DescendentRoom", a, 0, 0,
                       create_descendent_room_scratch(a, t, Len(dht)), OkOpt(<<Len(dht) + 2>>))
    /\ UNCHANGED <<valVars, sigVars>>

\* delete_descendent_room(action_hash): delete_link(action_hash, local).
\* The host refuses a hash it cannot resolve locally to a CreateLink.
delete_descendent_room(a, t, h) ==
    /\ ClockOk(a, t)
    /\ Len(dht) + 1 <= MaxRoster
    /\ IF ~(h \in visible[a] /\ h \in DOMAIN dht /\ dht[h].type = "CreateLink")
       THEN /\ ret' = Returned("delete_descendent_room", "DescendentRoom", a, h, 0,
                               ErrGuest("delete_link failed"), <<>>, <<>>)
            /\ UNCHANGED <<dht, visible>>
       ELSE Commit("delete_descendent_room", "DescendentRoom", a, h, 0,
                   << DeleteLinkAct(a, t, h) >>)
    /\ UNCHANGED <<valVars, sigVars>>

\* The loop of get_all_descendent_rooms: a link is kept, by its hash, when
\* its target is an entry hash, resolves and is a DescendentRoom.
RECURSIVE descendent_rooms(_, _, _)
descendent_rooms(links, W, vw) ==
    IF links = <<>> THEN <<>>
    ELSE LET link == Head(links)
             r == IF EntryHash_try_from_ok(W[link].target)
                  THEN get_entry(W[link].target, W, vw) ELSE <<>>
         IN  (IF r # <<>> /\ to_app_option("DescendentRoom", W[r[1]]) = "Some"
              THEN <<link>> ELSE <<>>) \o descendent_rooms(Tail(links), W, vw)

get_all_descendent_rooms(links, W, vw) == OkVec(descendent_rooms(links, W, vw))

Call_get_all_descendent_rooms(a) ==
    /\ \E links \in Orders(get_links(path_entry_hash(ALL_DESCENDENT_ROOMS), "AllDescendentRooms",
                                      dht, visible[a])) :
          ret' = Returned("get_all_descendent_rooms", "room", a, 0, 0,
                          get_all_descendent_rooms(links, dht, visible[a]), links, <<>>)
    /\ UNCHANGED <<dht, visible, valVars, sigVars>>

\* get_links of the unzoom DNA
unzoom_get_links(base, link_type, W, vw) ==
    {l \in vw \cap DOMAIN W :
        /\ W[l].type = "CreateLink" /\ W[l].zome = "unzoom"
        /\ W[l].link_type = link_type /\ W[l].base = base
        /\ ~\E d \in vw \cap DOMAIN W : W[d].type = "DeleteLink" /\ W[d].original = l}

\* The path of anchor(AnchorToAgent, ALL_AGENTS, ALL_AGENTS): the root
\* component, the anchor type, the anchor text.
anchor_path == << "<root>", "<root>.ALL_AGENTS", "<root>.ALL_AGENTS.ALL_AGENTS" >>

\* TypedPath::exists of the k-th prefix: a link from its parent to it.
path_exists(k, W, vw) ==
    \E l \in unzoom_get_links(IF k = 1 THEN path_entry_hash("<root>-hash")
                                ELSE path_entry_hash(anchor_path[k - 1]),
                                "AnchorToAgent", W, vw) :
        W[l].target = path_entry_hash(anchor_path[k])

\* TypedPath::ensure of the k-th prefix: nothing when it exists, else the
\* parent is ensured and a link from the parent to it is created.
RECURSIVE path_ensure(_, _, _, _, _)
path_ensure(k, a, t, W, vw) ==
    IF k = 0 \/ path_exists(k, W, vw) THEN <<>>
    ELSE path_ensure(k - 1, a, t, W, vw) \o
         << CreateLinkAct(a, t, "unzoom", "AnchorToAgent",
                          IF k = 1 THEN path_entry_hash("<root>-hash")
                          ELSE path_entry_hash(anchor_path[k - 1]),
                          path_entry_hash(anchor_path[k]), "utf8") >>

\* anchor(..): path.ensure(), then the path's entry hash.
anchor_scratch(a, t, W, vw) == path_ensure(Len(anchor_path), a, t, W, vw)

\* get_all_agents of the unzoom DNA: anchor(..), get_links on it, the
\* targets that parse.  What anchor(..) wrote is validated when the call ends.
Call_unzoom_get_all_agents(a, t) ==
    /\ ClockOk(a, t)
    /\ \E links \in Orders(unzoom_get_links(path_entry_hash(anchor_path[Len(anchor_path)]),
                                             "AnchorToAgent", dht, visible[a])) :
          LET scratch == anchor_scratch(a, t, dht, visible[a]) IN
          /\ Len(dht) + Len(scratch) <= MaxRoster
          /\ CommitReturning("get_all_agents", "unzoom", a, 0, 0, scratch,
                             get_all_agents(links, dht))
    /\ UNCHANGED <<valVars, sigVars>>

WriteRoster ==
    /\ ret = NoRet
    /\ \E a \in Agents, t \in Times :
          \/ add_agent_to_anchor(a, t)
          \/ create_descendent_room(a, t)
          \/ create_attachment(a, t)
          \/ \E h \in 1..(Len(dht) + 1) : delete_descendent_room(a, t, h)

ReadRoster ==
    /\ ret = NoRet
    /\ \E a \in Agents :
          \/ Call_get_all_agents(a)
          \/ \E t \in Times : Call_unzoom_get_all_agents(a, t)
          \/ Call_get_all_descendent_rooms(a)
          \/ Call_get_all_attachments(a)

NextRoster == WriteRoster \/ ReadRoster \/ Gossip \/ TakeResult

SpecRoster == Init /\ [][NextRoster]_vars

\* ------------------------------------------------------------------ claims on the registries
\* The live links of a type the cell of a holds, on whatever base.
LiveLinksOfType(a, link_type) ==
    {l \in visible[a] \cap DOMAIN dht :
        /\ dht[l].type = "CreateLink" /\ dht[l].zome = "room" /\ dht[l].link_type = link_type
        /\ ~\E d \in visible[a] \cap DOMAIN dht : dht[d].type = "DeleteLink" /\ dht[d].original = l}

\* What get_all_agents answers in the view of a: the agents on the roster.
Roster(a) ==
    {AgentPubKey_try_from(dht[l].target) :
        l \in get_links(path_entry_hash(ALL_AGENTS), "AllAgents", dht, visible[a])}

RetVals == {ret.val[i] : i \in 1..Len(ret.val)}

\* C21 as stated: get_all_agents, of the room DNA and of the unzoom DNA,
\* returns Ok with the targets that parse as agent keys, one per such
\* link, and leaves out the links whose target does not parse.
C21_AgentListingNeverFails ==
    (ret.fn = "get_all_agents") =>
        /\ ret.ok
        /\ Len(ret.val) = Cardinality({l \in RetLinks : AgentPubKey_try_from_ok(dht[l].target)})
        /\ RetVals = {AgentPubKey_try_from(dht[l].target) :
                         l \in {m \in RetLinks : AgentPubKey_try_from_ok(dht[m].target)}}

\* The part of it that is about the room DNA.
RoomAgentListingNeverFails == ret.kind = "room" => C21_AgentListingNeverFails

C23_RosterState ==
    /\ (ret.fn = "add_agent_to_anchor") =>
          /\ ret.ok
          /\ dht[ret.val[1]] = CreateLinkAct(ret.caller, dht[ret.val[1]].timestamp, "room",
                                             "AllAgents", path_entry_hash(ALL_AGENTS),
                                             AgentAsLinkable(ret.caller), "utf8")
          /\ ret.caller \in Roster(ret.caller)
    /\ (ret.fn = "get_all_agents" /\ ret.kind = "room") => RetVals = Roster(ret.caller)
    /\ \A d \in DOMAIN dht : dht[d].type = "DeleteLink" => dht[dht[d].original].link_type # "AllAgents"

\* C23: add_agent_to_anchor by an agent writes an AllAgents link from the
\* ALL_AGENTS anchor to the caller's own key and passes validation; an
\* agent that get_all_agents returns in a peer's view is returned by every
\* later get_all_agents in that view: no step takes an agent off a roster,
\* and no DeleteLink of an AllAgents link is ever written.
C23_RosterAppendOnly ==
    /\ []C23_RosterState
    /\ [][\A a \in Agents : Roster(a) \subseteq Roster(a)']_vars

\* A peer tried to delete another agent's registration: the call failed
\* and the agent is still on the peer's roster.
C23_Witness ==
    /\ ret.fn = "delete_descendent_room" /\ ~ret.ok /\ ret.issued # <<>>
    /\ dht[ret.original].link_type = "AllAgents"
    /\ dht[ret.original].author # ret.caller
    /\ dht[ret.original].author \in Roster(ret.caller)

\* C26: add_agent_to_anchor succeeds for every agent whatever the others
\* have registered; every registration is accepted by the validation of
\* every peer, whatever that peer holds; get_all_agents in a view that
\* holds the registrations of two agents contains both, in whatever order
\* they were written or arrived.
C26_RegistrationsCommute ==
    /\ (ret.fn = "add_agent_to_anchor") => ret.ok
    /\ \A l \in DOMAIN dht : (dht[l].type = "CreateLink" /\ dht[l].link_type = "AllAgents") =>
          /\ dht[l].target = AgentAsLinkable(dht[l].author)
          /\ \A a \in Agents : AllValid(l, dht, visible[a] \cup {l})
    /\ (ret.fn = "get_all_agents" /\ ret.kind = "room") =>
          \A l \in DOMAIN dht :
              (dht[l].type = "CreateLink" /\ dht[l].link_type = "AllAgents" /\ Holds(ret.caller, l))
                  => dht[l].author \in RetVals

\* Two agents registered without holding each other's registration; the
\* one that registered second reads a roster with both.
C26_Witness ==
    /\ ret.fn = "get_all_agents" /\ ret.kind = "room" /\ Len(ret.val) = 2
    /\ \E l1, l2 \in RetLinks :
          /\ l1 < l2 /\ dht[l1].author # dht[l2].author
          /\ dht[l2].author = ret.caller
          /\ ~Holds(dht[l1].author, l2)
          /\ RetVals = {dht[l1].author, dht[l2].author}

Effects(ok, sent, emitted) == [ok |-> ok, sent |-> sent, emitted |-> emitted]

\* remote_signal(encoded_signal, agents): one signal to each agent of the Vec.
remote_signal(payload, agents) ==
    Effects(TRUE, [i \in 1..Len(agents) |-> Signal(agents[i], payload)], <<>>)

emit_signal(payload) == Effects(TRUE, <<>>, <<payload>>)

\* A pong that answers with a Ping of its own, for comparison with pong.
pong_with_ping(a, from_agent) == remote_signal(Payload("Ping", a, "", ""), <<from_agent>>)

\* pong(from_agent), called by cell a.
pong(a, from_agent) == remote_signal(Payload("Pong", a, "", ""), <<from_agent>>)

\* A recv_remote_signal that hands a Ping to the UI like every other signal.
recv_remote_signal_emit_all(a, signal) ==
    IF signal \notin SignalPayload
    THEN Effects(FALSE, <<>>, <<>>)
    ELSE emit_signal(signal)

\* A recv_remote_signal that answers a PingUi itself.
recv_remote_signal_answering_ui(a, signal) ==
    IF signal \notin SignalPayload
    THEN Effects(FALSE, <<>>, <<>>)
    ELSE CASE signal.type = "Ping" -> pong(a, signal.from_agent)
           [] signal.type = "PingUi" ->
                remote_signal(Payload("PongUi", a, "", ""), <<signal.from_agent>>)
           [] OTHER -> emit_signal(signal)

\* recv_remote_signal(signal), run by cell a.
recv_remote_signal(a, signal) ==
    IF signal \notin SignalPayload
    THEN Effects(FALSE, <<>>, <<>>)
    ELSE CASE signal.type = "Ping" -> pong(a, signal.from_agent)
           [] OTHER -> emit_signal(signal)

ping(a, agents_pub_keys) == remote_signal(Payload("Ping", a, "", ""), agents_pub_keys)

ping_ui(a, agents_pub_keys) == remote_signal(Payload("PingUi", a, "", ""), agents_pub_keys)

pong_ui(a, agent_pub_key) == remote_signal(Payload("PongUi", a, "", ""), <<agent_pub_key>>)

send_init_request(a, connection_id, to_agent) ==
    remote_signal(Payload("InitRequest", a, connection_id, ""), <<to_agent>>)

send_init_accept(a, connection_id, to_agent) ==
    remote_signal(Payload("InitAccept", a, connection_id, ""), <<to_agent>>)

send_sdp_data(a, connection_id, data, to_agent) ==
    remote_signal(Payload("SdpData", a, connection_id, data), <<to_agent>>)

\* ------------------------------------------------------------------ remote signals: calls and delivery
Occurrences(seq, x) == Cardinality({i \in 1..Len(seq) : seq[i] = x})

SeqToBag(seq) == [x \in {seq[i] : i \in 1..Len(seq)} |-> Occurrences(seq, x)]

AgentVecs == UNION {[1..n -> Agents] : n \in 0..NAgents}

\* The call takes effect: its signals are on their way.
Effect(fn, a, input, e) ==
    /\ net' = net (+) SeqToBag(e.sent)
    /\ sig' = [fn |-> fn, agent |-> a, input |-> input, ok |-> e.ok, sent |-> e.sent,
               emitted |-> e.emitted]

\* A zome call made by the UI of a's cell.
UiCall(fn, a, input, e) ==
    /\ ui[a]
    /\ nsent + Len(e.sent) <= MaxSignals
    /\ nsent' = nsent + Len(e.sent)
    /\ Effect(fn, a, input, e)
    /\ UNCHANGED <<ui, ponged, valVars, storeVars>>

Call_ping(a, agents) ==
    /\ UiCall("ping", a, agents, ping(a, agents))
    /\ pinged' = [pinged EXCEPT ![a] = [b \in Agents |-> @[b] + Occurrences(agents, b)]]

Call_ping_ui(a, agents) ==
    /\ UiCall("ping_ui", a, agents, ping_ui(a, agents))
    /\ UNCHANGED pinged

Call_pong_ui(a, b) ==
    /\ UiCall("pong_ui", a, <<b>>, pong_ui(a, b))
    /\ UNCHANGED pinged

Call_send_init_request(a, c, b) ==
    /\ UiCall("send_init_request", a, <<b>>, send_init_request(a, c, b))
    /\ UNCHANGED pinged

Call_send_init_accept(a, c, b) ==
    /\ UiCall("send_init_accept", a, <<b>>, send_init_accept(a, c, b))
    /\ UNCHANGED pinged

Call_send_sdp_data(a, c, d, b) ==
    /\ UiCall("send_sdp_data", a, <<b>>, send_sdp_data(a, c, d, b))
    /\ UNCHANGED pinged

\* A remote signal arrives: the conductor of its addressee runs
\* recv_remote_signal on it, whether or not the UI is running.
Call_recv_remote_signal(s) ==
    /\ BagIn(s, net)
    /\ LET e == recv_remote_signal(s.to, s.payload)
       IN  /\ net' = (net (-) SetToBag({s})) (+) SeqToBag(e.sent)
           /\ sig' = [fn |-> "recv_remote_signal", agent |-> s.to, input |-> s.payload,
                      ok |-> e.ok, sent |-> e.sent, emitted |-> e.emitted]
    /\ ponged' = IF s.payload.type = "Pong"
                 THEN [ponged EXCEPT ![s.to][s.payload.from_agent] = @ + 1]
                 ELSE ponged
    /\ UNCHANGED <<ui, nsent, pinged, valVars, storeVars>>

\* The UI of a's cell is opened or closed.
ToggleUi(a) ==
    /\ ui' = [ui EXCEPT ![a] = ~@]
    /\ UNCHANGED <<net, sig, nsent, pinged, ponged, valVars, storeVars>>

UiCalls ==
    \E a \in Agents :
        \/ \E agents \in AgentVecs : Call_ping(a, agents) \/ Call_ping_ui(a, agents)
        \/ \E b \in Agents : Call_pong_ui(a, b)
        \/ \E b \in Agents, c \in ConnectionIds :
              \/ Call_send_init_request(a, c, b)
              \/ Call_send_init_accept(a, c, b)
              \/ \E d \in SdpStrings : Call_send_sdp_data(a, c, d, b)

Delivery == \E s \in BagToSet(net) : Call_recv_remote_signal(s)

Ui == \E a \in Agents : ToggleUi(a)

NextSignals == UiCalls \/ Delivery \/ Ui

SpecSignals == Init /\ [][NextSignals]_vars

\* Reliable delivery: a signal on its way arrives.
SpecSignalsReliable == SpecSignals /\ WF_vars(Delivery)

\* ------------------------------------------------------------------ claims on the remote signals
C28_PingHandled ==
    /\ (sig.fn = "recv_remote_signal" /\ sig.input.type = "Ping") =>
          /\ sig.ok
          /\ sig.sent = << Signal(sig.input.from_agent, Payload("Pong", sig.agent, "", "")) >>
          /\ sig.emitted = <<>>
    /\ \A a, b \in Agents : ponged[a][b] <= pinged[a][b]

\* C28: a cell whose recv_remote_signal receives Ping{from_agent: A} sends
\* exactly one Pong carrying its own key to A and emits nothing to its UI;
\* no cell receives more Pongs of B than it sent Pings to B; and when
\* signals on their way arrive, the n-th Ping that A's ping calls send to B
\* is followed by A's cell receiving its n-th Pong of B, with B's UI
\* running or not.
C28_PingPong ==
    /\ []C28_PingHandled
    /\ \A a, b \in Agents : \A n \in 1..MaxSignals :
          (pinged[a][b] >= n) ~> (ponged[a][b] >= n)

\* A's cell has received the Pong to its only ping from B, whose UI is
\* closed and has made no call that sent a signal.
C28_Witness ==
    \E a, b \in Agents :
        /\ a # b /\ ~ui[b]
        /\ pinged[a][b] = 1 /\ nsent = 1 /\ ponged[a][b] = 1
        /\ sig.fn = "recv_remote_signal" /\ sig.agent = a
        /\ sig.input = Payload("Pong", b, "", "")

\* C29: receiving any signal other than a Ping (Pong, PingUi, PongUi,
\* InitRequest, InitAccept, SdpData) emits that payload unchanged to the
\* local UI and sends no remote signal; a PongUi is sent only by a pong_ui
\* call, once, carrying the caller's key, to the agent passed to pong_ui.
C29_UiSignalsOnlyForwarded ==
    /\ (sig.fn = "recv_remote_signal" /\ sig.input.type # "Ping") =>
          /\ sig.ok
          /\ sig.sent = <<>>
          /\ sig.emitted = << sig.input >>
    /\ \A i \in 1..Len(sig.sent) : sig.sent[i].payload.type = "PongUi" =>
          /\ sig.fn = "pong_ui"
          /\ sig.sent = << Signal(sig.input[1], Payload("PongUi", sig.agent, "", "")) >>
    /\ (sig.fn = "pong_ui") =>
          sig.sent = << Signal(sig.input[1], Payload("PongUi", sig.agent, "", "")) >>

\* A cell whose UI is running received a PingUi: it went to the UI and
\* nothing is on its way back.
C29_Witness ==
    /\ sig.fn = "recv_remote_signal" /\ sig.input.type = "PingUi"
    /\ ui[sig.agent] /\ sig.input.from_agent # sig.agent
    /\ net = EmptyBag

\* ------------------------------------------------------------------ claims on what the mutations write
\* The store and the caller's view a write call's actions were validated
\* against, and the hashes of those actions.
RetStore == IF ret.ok THEN dht ELSE dht \o ret.issued
RetIssued == (Len(RetStore) - Len(ret.issued) + 1)..Len(RetStore)

\* C31 as stated: every link create_room_info and update_room_info issue
\* is accepted by the room integrity zome for its link type, so the call
\* completes.
C31_MutationLinksAccepted ==
    (ret.fn = "create_room_info" \/ (ret.fn = "update" /\ ret.kind = "RoomInfo" /\ ret.issued # <<>>)) =>
        /\ \A i \in RetIssued : RetStore[i].type = "CreateLink" =>
              AllValid(i, RetStore, visible[ret.caller] \cup RetIssued)
        /\ ret.ok

\* ------------------------------------------------------------------ stores of validated links
\* The integrity zome is all that peers share: a cell may run any
\* coordinator, so whatever passes validate can be in the store.
\* The actions such a run stores at most.
MaxIssued == 3

\* create_entry(kind) by the cell of a.
issue_entry(a, t, kind) ==
    /\ ClockOk(a, t)
    /\ Len(dht) + 1 <= MaxIssued
    /\ Commit("create_entry", kind, a, 0, 0, << CreateAct(a, t, kind) >>)
    /\ UNCHANGED <<valVars, sigVars>>

\* create_link(base, target, link_type, ()) by the cell of a.
issue_link(a, t, link_type, base, target) ==
    /\ ClockOk(a, t)
    /\ Len(dht) + 1 <= MaxIssued
    /\ Commit("create_link", link_type, a, 0, 0,
              << CreateLinkAct(a, t, "room", link_type, base, target, "utf8") >>)
    /\ UNCHANGED <<valVars, sigVars>>

\* The bases and targets a link can name: the anchors, the agents' keys,
\* and the action and entry hashes of the records written so far.
IssuedBases ==
    {path_entry_hash(ALL_DESCENDENT_ROOMS), path_entry_hash(ROOM_INFO)}
    \cup {ActionHash(i) : i \in Originals}
IssuedTargets ==
    {AgentAsLinkable(b) : b \in Agents}
    \cup {ActionHash(i) : i \in Originals} \cup {hash_entry(i) : i \in Originals}

WriteLinks ==
    /\ ret = NoRet
    /\ \E a \in Agents, t \in Times :
          \/ \E kind \in {"RoomInfo", "DescendentRoom"} : issue_entry(a, t, kind)
          \/ \E link_type \in {"AllDescendentRooms", "RoomInfoUpdates"},
                base \in IssuedBases, target \in IssuedTargets :
                issue_link(a, t, link_type, base, target)
          \/ create_descendent_room(a, t)
          \/ \E original \in Originals, previous \in Originals :
                update("RoomInfo", a, t, original, previous)

ReadLinks ==
    /\ ret = NoRet
    /\ \E a \in Agents :
          \/ Call_get_all_descendent_rooms(a)
          \/ \E original \in Originals :
                \/ Call_get_latest(a, "RoomInfo", original)
                \/ Call_get_all_revisions(a, "RoomInfo", original)

NextLinks == WriteLinks \/ ReadLinks \/ Gossip \/ TakeResult

SpecLinks == Init /\ [][NextLinks]_vars

C33_RoomInfoNeverRevised ==
    /\ \A l \in DOMAIN dht :
          (dht[l].type = "CreateLink" /\ dht[l].link_type = "RoomInfoUpdates") =>
              (dht[l].base = path_entry_hash(ROOM_INFO) /\ ~into_action_hash_ok(dht[l].base))
    /\ (ret.fn = "get_latest" /\ ret.kind = "RoomInfo") =>
          /\ ret.ok /\ ret.links = <<>>
          /\ ret.val = get(ret.original, dht, visible[ret.caller])
    /\ (ret.fn = "get_all_revisions" /\ ret.kind = "RoomInfo") =>
          /\ ret.ok /\ Len(ret.val) <= 1
          /\ \A i \in 1..Len(ret.val) : ret.val[i] = ret.original

\* The caller holds a valid RoomInfoUpdates link to a second RoomInfo
\* record; the latest room info of the original is the original.
C33_Witness ==
    /\ ret.fn = "get_latest" /\ ret.kind = "RoomInfo" /\ ret.val = <<ret.original>>
    /\ dht[ret.original].entry = "RoomInfo"
    /\ \E l \in DOMAIN dht :
          /\ Holds(ret.caller, l) /\ dht[l].type = "CreateLink"
          /\ dht[l].link_type = "RoomInfoUpdates"
          /\ dht[l].target # ActionHash(ret.original)

\* ------------------------------------------------------------------ the ops of one action
\* The ops the op under validation shares its action with.
SiblingOps == {o \in Ops : o.dna = op.dna /\ o.action = op.action}

\* Two results are the same verdict when both are Valid, both Invalid
\* (whatever the message), both an error or both UnresolvedDependencies.
\* The cell of a holds every record the ops of the action refer to.
HoldsDeps(a) == \A o \in SiblingOps : OpDeps(o) \subseteq view[a]

SameVerdictForSiblings(a) ==
    \A o \in SiblingOps : validate_op(o, World, view[a]).tag = validate_op(op, World, view[a]).tag

UpdateOpsAgree ==
    \A a \in Agents :
        (/\ op.dna = "room" /\ op.action.type = "Update"
         /\ op.action.entry \in {"RoomInfo", "DescendentRoom"}
         /\ SysValidUpdate(op) /\ HoldsDeps(a)) => SameVerdictForSiblings(a)

DeleteOpsAgree ==
    \A a \in Agents :
        (op.dna = "room" /\ op.action.type \in {"Delete", "DeleteLink"} /\ HoldsDeps(a))
            => SameVerdictForSiblings(a)

\* C34 as stated, for a cell that holds every record the action refers
\* to: validate returns the same result on the StoreEntry, StoreRecord and
\* RegisterUpdate ops of one Update of a RoomInfo or DescendentRoom entry,
\* and on the Register and StoreRecord ops of one Delete or DeleteLink.
C34_OpsOfOneActionAgree == UpdateOpsAgree /\ DeleteOpsAgree

\* ------------------------------------------------------------------ claims on delete_attachment
\* C35: a delete_attachment(original) whose get_details finds nothing in
\* the caller's cell returns an error and writes nothing: no DeleteLink, no
\* Delete, the store and every view stay as they were.
C35_DeleteOfUnresolvedFails ==
    [][(/\ ret'.fn = "delete_attachment" /\ ret.fn # "delete_attachment"
        /\ ~get_details_some(ret'.original, dht, visible[ret'.caller]))
           => (/\ ~ret'.ok /\ ret'.issued = <<>>
               /\ dht' = dht /\ visible' = visible)]_vars

\* The caller holds a live registry link to an attachment it does not
\* hold; its delete_attachment was refused.
C35_Witness ==
    /\ ret.fn = "delete_attachment" /\ ~ret.ok
    /\ ret.err = "{pascal_entry_def_name} not found"
    /\ ret.original \in DOMAIN dht /\ ~Holds(ret.caller, ret.original)
    /\ \E l \in LiveListing(ret.caller) : dht[l].target = ActionHash(ret.original)

\* The registry links to original that are live in the view of a.
ListedAs(a, original) == {l \in LiveListing(a) : dht[l].target = ActionHash(original)}

\* C36: a delete_attachment(original) that returns Ok wrote, after the
\* actions already stored, one DeleteLink for each live AllAttachments link
\* on the anchor in the caller's view whose target is original, whoever
\* created the link, and one Delete of original, and nothing else: the
\* live registry links to other targets, the AttachmentUpdates links of
\* original and the other cells' views are what they were.
C36_DeleteFrame ==
    [][\A a \in Agents, o \in DOMAIN dht :
          (/\ ret'.fn = "delete_attachment" /\ ret.fn # "delete_attachment" /\ ret'.ok
           /\ ret'.caller = a /\ ret'.original = o) =>
          LET new == (Len(dht) + 1)..Len(dht')
          IN  /\ SubSeq(dht', 1, Len(dht)) = dht
              /\ {dht'[i].original : i \in {j \in new : dht'[j].type = "DeleteLink"}} = ListedAs(a, o)
              /\ Cardinality(new) = Cardinality(ListedAs(a, o)) + 1
              /\ dht'[Len(dht')] = DeleteAct(a, dht'[Len(dht')].timestamp, o)
              /\ \A i \in new \ {Len(dht')} : dht'[i].type = "DeleteLink"
              /\ LiveListing(a)' = LiveListing(a) \ ListedAs(a, o)
              /\ HeldUpdatesLinks(a, o)' = HeldUpdatesLinks(a, o)
              /\ \A b \in Agents \ {a} : visible'[b] = visible[b]]_vars

\* A peer deleted another author's attachment that has a revision: the
\* registry link the author wrote is deleted, the Updates-link is held.
C36_Witness ==
    /\ ret.fn = "delete_attachment" /\ ret.ok
    /\ dht[ret.original].author # ret.caller
    /\ HeldUpdatesLinks(ret.caller, ret.original) # {}
    /\ \E i \in 1..Len(ret.issued) :
          /\ ret.issued[i].type = "DeleteLink"
          /\ dht[ret.issued[i].original].author # ret.caller

\* ------------------------------------------------------------------ resolvers and the order of arrival
\* C37 as stated: a resolver's result depends only on the set of facts
\* the cell holds: whatever get_latest (get_oldest_delete) returned, it
\* returns the same in every other cell that holds the same facts, in
\* whatever order the host hands that cell the links (the deletes), equal
\* timestamps included.
C37_OrderIndependentResolvers ==
    \A b \in Agents \ {ret.caller} :
        (ret.fn \in {"get_latest", "get_oldest_delete"} /\ visible[b] = visible[ret.caller]) =>
            /\ (ret.fn = "get_latest") =>
                  \A links \in Orders(get_links(ActionHash(ret.original), UpdatesLinkType(ret.kind),
                                                dht, visible[b])) :
                      get_latest(ret.original, links, dht, visible[b]).val = ret.val
            /\ (ret.fn = "get_oldest_delete") =>
                  \A deletes \in Orders(details_deletes(ret.original, dht, visible[b])) :
                      get_oldest_delete(ret.original, deletes, dht, visible[b]).val = ret.val

\* ---- the newest revision or nothing ----

\* The Updates-links of the call with the greatest timestamp.
NewestLinks == {l \in RetLinks : \A m \in RetLinks : LinkTs(l) >= LinkTs(m)}

\* C38: get_latest never falls back to an older revision.  With Updates-links
\* present, a result is the target of a link of the greatest timestamp; when
\* that target does not resolve in the caller's cell the result is None, even
\* though the original and older revisions resolve; when that target is no
\* action hash the call fails; a target that is no action hash on a link of a
\* smaller timestamp changes nothing.
C38_NewestOrNothing ==
    (ret.fn = "get_latest" /\ ret.links # <<>>) =>
        /\ ret.some => \E l \in NewestLinks : /\ into_action_hash_ok(dht[l].target)
                                              /\ ret.val = <<dht[l].target.id>>
        /\ (\A l \in NewestLinks : /\ into_action_hash_ok(dht[l].target)
                                    /\ ~Live(ret.caller, dht[l].target.id))
              => (ret.ok /\ ~ret.some)
        /\ (\A l \in NewestLinks : ~into_action_hash_ok(dht[l].target)) => ~ret.ok
        /\ (\A l \in NewestLinks : into_action_hash_ok(dht[l].target)) => ret.ok

\* The original and an older revision resolve, an older link is malformed,
\* the newest link's target is not held: the result is None.
C38_Witness ==
    /\ ret.fn = "get_latest" /\ Len(ret.links) = 3
    /\ Live(ret.caller, ret.original)
    /\ \E l \in RetLinks \ NewestLinks : /\ into_action_hash_ok(dht[l].target)
                                          /\ Live(ret.caller, dht[l].target.id)
    /\ \E l \in RetLinks \ NewestLinks : ~into_action_hash_ok(dht[l].target)
    /\ \A l \in NewestLinks : /\ into_action_hash_ok(dht[l].target)
                               /\ ~Live(ret.caller, dht[l].target.id)
    /\ ret.ok /\ ~ret.some

\* ---- the rules of the unzoom integrity zome ----

\* The CreateLink a DeleteLink op removes, as the validating cell a knows it:
\* carried by the op (RegisterDeleteLink) or fetched (StoreRecord).
KnownOriginal(a) ==
    IF op.flat = "RegisterDeleteLink" THEN <<op.original_action>>
    ELSE IF /\ op.flat = "StoreRecord" /\ op.sub = "DeleteLink"
            /\ op.action.original \in validated_view[a]
            /\ World[op.action.original].type = "CreateLink"
            /\ World[op.action.original].zome = "unzoom"
    THEN <<World[op.action.original]>>
    ELSE <<>>

CarriesAppEntry ==
    \/ op.flat \in {"StoreEntry", "StoreRecord"} /\ op.sub \in {"CreateEntry", "UpdateEntry"}
    \/ op.flat \in {"RegisterUpdate", "RegisterDelete"} /\ op.sub = "Entry"

PingsIn(bag) == [s \in {x \in BagToSet(bag) : x.payload.type = "Ping"} |-> bag[s]]
OnTheWay(s) == IF BagIn(s, net) THEN net[s] ELSE 0
PingOnTheWay(a, b) == OnTheWay(Signal(b, Payload("Ping", a, "", "")))
PongOnTheWay(a, b) == OnTheWay(Signal(a, Payload("Pong", b, "", "")))

\* What is left to do for the signals on their way: a Ping takes two
\* deliveries (its own and its Pong's), every other signal one.
SignalWork == BagCardinality(net) + BagCardinality(PingsIn(net))

SendingCalls ==
    {"ping", "ping_ui", "pong_ui", "send_init_request", "send_init_accept", "send_sdp_data"}

C40_SendersAndAddressees ==
    /\ (sig.fn = "recv_remote_signal" /\ sig.input.type # "Ping") => sig.sent = <<>>
    /\ (sig.fn = "recv_remote_signal" /\ sig.input.type = "Ping") =>
          /\ Len(sig.sent) = 1
          /\ sig.sent[1].to = sig.input.from_agent
          /\ sig.sent[1].payload.type = "Pong"
          /\ sig.sent[1].payload.from_agent = sig.agent
    /\ sig.fn \in SendingCalls =>
          /\ [i \in 1..Len(sig.sent) |-> sig.sent[i].to] = sig.input
          /\ \A i \in 1..Len(sig.sent) : sig.sent[i].payload.from_agent = sig.agent
    /\ \A a, b \in Agents :
          ponged[a][b] + PongOnTheWay(a, b) + PingOnTheWay(a, b) <= pinged[a][b]

\* C40: signal handling cannot loop.  Receiving a payload other than Ping
\* sends no remote signal and receiving a Ping sends one Pong, so the Pongs
\* of B that A's cell received or that are on their way never exceed the
\* Pings A's ping calls sent to B; every delivery leaves less to deliver
\* than before, and the signals on their way run out again and again; the
\* signals of ping, pong, ping_ui, pong_ui, send_init_request,
\* send_init_accept and send_sdp_data carry the sending cell's key as
\* from_agent and go to exactly the agents the caller gave (for pong: the
\* from_agent of the received Ping).
C40_SignalsCannotLoop ==
    /\ []C40_SendersAndAddressees
    /\ [][Delivery => SignalWork' < SignalWork]_vars
    /\ []<>(net = EmptyBag)

\* One ping to the two agents: both Pongs have arrived, nothing is on its
\* way and no other call has sent a signal.
C40_Witness ==
    \E a \in Agents :
        /\ \A b \in Agents : pinged[a][b] = 1 /\ ponged[a][b] = 1
        /\ nsent = NAgents
        /\ sig.fn = "recv_remote_signal" /\ sig.input.type = "Pong" /\ sig.sent = <<>>
        /\ net = EmptyBag

====
